---- MODULE Spec2Model ----
(***************************************************************************)
(* Category hierarchy and assignment consistency of Tag-Manager-V3.        *)
(*                                                                         *)
(* The state is the two stores the request handlers of src/app.py and      *)
(* src/app_fastapi.py share: the hierarchy file data/category.json and the *)
(* SQLite database data/products.db (product_categories,                   *)
(* product_category_mapping and the optional mirror table categories).     *)
(* Every action is one HTTP request handled from start to end; the last    *)
(* request, its response and the stores as the request found them are kept *)
(* so that the handlers' contracts can be stated as state predicates.      *)
(***************************************************************************)
EXTENDS Integers, Sequences, FiniteSets, TLC

VARIABLES
    category_json,             \* data/category.json: a sequence of records
    product_category_mapping,  \* table product_category_mapping: set of <<product_id, category_id>>
    last_modified,             \* table product_categories: last_modified of every catalog product
    categories_table,          \* mirror table categories: its rows (empty when the table is absent)
    mirror_schema,             \* which script created the mirror table, if any
    now,                       \* the clock CURRENT_TIMESTAMP reads; it ticks once per request
    request,                   \* the request handled last
    response,                  \* the response it got
    before,                    \* the stores as that request found them
    connections                \* the requests in flight at once, each on its own connection

vars == <<category_json, product_category_mapping, last_modified, categories_table,
          mirror_schema, now, request, response, before, connections>>

(***************************************************************************)
(* Bounds and universes.                                                   *)
(***************************************************************************)
\* number of requests in one behaviour (the clock stops there)
MaxTime == 1
\* longest product_ids list of a bulk request
MaxBatch == 2

\* most records of the hierarchy file a process that dies has written
MaxWritten == 1

\* JSON null / Python None
Null == "null"
\* a key that is absent from the request body
Missing == "missing"

\* rows of product_categories (the imported catalog; the core never deletes them)
Products == {"P1", "P2"}
\* product ids a request may name: PX is in no row of product_categories
ProductIds == Products \cup {"PX"}
\* category names a request may name
CategoryIds == {"A", "B", "C"}
\* levels a create request may send; 4 stands for every value outside [1, 2, 3]
Levels == {1, 2, 3, 4}

(***************************************************************************)
(* data/category.json                                                      *)
(***************************************************************************)
\* f'Level {data["level"]} Category'
LevelName(level) ==
    CASE level = 1 -> "Level 1 Category"
      [] level = 2 -> "Level 2 Category"
      [] level = 3 -> "Level 3 Category"
      [] OTHER     -> "Level ? Category"

\* one record of the file
CategoryRecord(name, level, parent) ==
    [category_name |-> name, category_level |-> LevelName(level), connected_to |-> parent]

\* next((cat for cat in categories if cat['category_name'] == name), None):
\* the index of the first record of that name, 0 for None
FindCategory(categories, name) ==
    LET hits == {i \in 1..Len(categories) : categories[i].category_name = name}
    IN  IF hits = {} THEN 0 ELSE CHOOSE i \in hits : \A j \in hits : i <= j

CategoryNames(categories) == {categories[i].category_name : i \in 1..Len(categories)}

\* ParentWalk with `if` for `while`: the walk stops at the immediate parent
ParentWalkOneHop(categories, name, seen) ==
    LET i == FindCategory(categories, name)
    IN  IF i = 0 \/ categories[i].connected_to = Null
        THEN [parents |-> {}, halts |-> TRUE]
        ELSE [parents |-> {categories[i].connected_to}, halts |-> TRUE]

\* the walk   while current_category and current_category.get('connected_to'): ...
\* started at the record of `name`. parents: the names it adds to parent_categories;
\* halts: FALSE when the walk comes back to a record it has already been at, which
\* the loop then repeats for ever. `seen` holds the names whose record the walk
\* has been at.
RECURSIVE ParentWalk(_, _, _)
ParentWalk(categories, name, seen) ==
    LET i == FindCategory(categories, name)
    IN  IF i = 0 \/ categories[i].connected_to = Null
        THEN [parents |-> {}, halts |-> TRUE]
        ELSE LET parent_name == categories[i].connected_to
             IN  IF parent_name \in seen
                 THEN [parents |-> {parent_name}, halts |-> FALSE]
                 ELSE LET rest == ParentWalk(categories, parent_name, seen \cup {parent_name})
                      IN  [parents |-> {parent_name} \cup rest.parents, halts |-> rest.halts]

\* ParentCategories with the walk outside the loop: only one requested id is walked
ParentCategoriesOfOne(categories, category_ids) ==
    IF category_ids = {}
    THEN {}
    ELSE ParentWalk(categories, CHOOSE c \in category_ids : TRUE,
                    {CHOOSE c \in category_ids : TRUE}).parents

\* parent_categories after the loop over category_ids
ParentCategories(categories, category_ids) ==
    UNION {ParentWalk(categories, c, {c}).parents : c \in category_ids}

\* TRUE when every walk of the loop over category_ids ends
WalksHalt(categories, category_ids) ==
    \A c \in category_ids : ParentWalk(categories, c, {c}).halts

(***************************************************************************)
(* data/products.db as one connection sees it inside a transaction.        *)
(***************************************************************************)
Database == [mapping |-> product_category_mapping,
             last_modified |-> last_modified,
             categories |-> categories_table]

Stores == [category_json |-> category_json,
           mapping |-> product_category_mapping,
           last_modified |-> last_modified,
           categories |-> categories_table]

\* SELECT category_id FROM product_category_mapping WHERE product_id = ?
CategoriesOf(mapping, product_id) == {pc[2] : pc \in {m \in mapping : m[1] = product_id}}

\* UPDATE product_categories SET last_modified = CURRENT_TIMESTAMP WHERE product_id = ?
Touch(db, product_id, time) ==
    IF product_id \in Products
    THEN [db EXCEPT !.last_modified[product_id] = time]
    ELSE db

\* PRAGMA foreign_keys: sqlite3 leaves it off (app.py), database.py turns it on
ForeignKeys(app) == app = "fastapi"

\* INSERT INTO product_category_mapping ... raises sqlite3.IntegrityError on a
\* primary key already present and, with foreign keys on, on a product_id that
\* is not in product_categories
InsertRaises(db, app, product_id, category_id) ==
    \/ <<product_id, category_id>> \in db.mapping
    \/ ForeignKeys(app) /\ product_id \notin Products

\* InsertMissing without the test `not in current_categories`, as INSERT OR REPLACE
InsertAll(db, app, product_id, categories_to_add, current_categories) ==
    [db    |-> [db EXCEPT !.mapping = @ \cup {<<product_id, c>> : c \in categories_to_add}],
     added |-> categories_to_add]

\* InsertMissing with the try around the loop: the first IntegrityError ends the
\* loop, and in the worst order of the set no row has been inserted by then
InsertMissingUntilRaise(db, app, product_id, categories_to_add, current_categories) ==
    LET tried == categories_to_add \ current_categories
        added == IF \E c \in tried : InsertRaises(db, app, product_id, c)
                 THEN {}
                 ELSE tried
    IN  [db    |-> [db EXCEPT !.mapping = @ \cup {<<product_id, c>> : c \in added}],
         added |-> added]

\* the loop   for category_id in categories_to_add: if category_id not in
\* current_categories: try INSERT except IntegrityError: continue
\* added: the category ids whose INSERT went through
InsertMissing(db, app, product_id, categories_to_add, current_categories) ==
    LET added == {c \in categories_to_add \ current_categories :
                     ~InsertRaises(db, app, product_id, c)}
    IN  [db    |-> [db EXCEPT !.mapping = @ \cup {<<product_id, c>> : c \in added}],
         added |-> added]

\* Rollback that does nothing, as after an early commit
RollbackNothing(committed, working) == working

\* conn.rollback(): the transaction's writes are dropped
Rollback(committed, working) == committed

(***************************************************************************)
(* POST /api/products/<product_id>/categories                              *)
(***************************************************************************)
\* the handler as a function of the stores: the database it leaves and its response.
\* fail = 1: conn.commit() raises sqlite3.OperationalError
AssignHandler(app, product_id, category_ids, fail, categories, db, time) ==
    IF category_ids = {}
    THEN \* app.py: the return inside try runs finally: conn.close() with conn unbound;
         \* app_fastapi.py: min_items=1 fails the request validation
         [db |-> db,
          response |-> IF app = "flask"
                       THEN [status |-> 500, error |-> "UnboundLocalError"]
                       ELSE [status |-> 422, error |-> "Validation Error"]]
    ELSE IF ~WalksHalt(categories, category_ids)
    THEN [db |-> db, response |-> [status |-> 0, error |-> "no response"]]
    ELSE
    LET current_categories == CategoriesOf(db.mapping, product_id)
        parent_categories  == ParentCategories(categories, category_ids)
        categories_to_add  == category_ids \cup parent_categories
        touched  == Touch(db, product_id, time)
        inserted == InsertMissing(touched, app, product_id, categories_to_add,
                                  current_categories)
    IN  IF fail = 1
        THEN [db |-> Rollback(db, inserted.db),
              response |-> [status |-> IF app = "flask" THEN 500 ELSE 400,
                            error |-> "OperationalError"]]
        ELSE [db |-> inserted.db,
              response |->
                  IF app = "flask"
                  THEN [status |-> 200, error |-> "",
                        added_categories |-> inserted.added,
                        parent_categories_added |->
                            Cardinality(parent_categories \ category_ids),
                        \* SELECT category_id ... WHERE product_id = ? after the commit
                        categories |-> CategoriesOf(inserted.db.mapping, product_id)]
                  ELSE [status |-> 200, error |-> "",
                        added_categories |-> inserted.added,
                        parent_categories_added |->
                            Cardinality(parent_categories \ category_ids),
                        total_categories |-> Cardinality(categories_to_add)]]

\* what every request does to the bookkeeping variables
Handled(req, resp) ==
    /\ now' = now + 1
    /\ request' = req
    /\ response' = resp
    /\ before' = Stores
    /\ mirror_schema' = mirror_schema
    /\ connections' = connections

Commit(db) ==
    /\ product_category_mapping' = db.mapping
    /\ last_modified' = db.last_modified
    /\ categories_table' = db.categories

Assign(app, product_id, category_ids, fail) ==
    LET out == AssignHandler(app, product_id, category_ids, fail, category_json,
                             Database, now + 1)
    IN  /\ Handled([op |-> "assign", app |-> app, product_id |-> product_id,
                    category_ids |-> category_ids, fail |-> fail], out.response)
        /\ Commit(out.db)
        /\ UNCHANGED category_json

(***************************************************************************)
(* DELETE /api/products/<product_id>/category/<category_id>                *)
(***************************************************************************)
\* RemoveHandler whose DELETE lacks   AND category_id = ?
RemoveHandlerAllOfProduct(app, product_id, category_id, fail, db, time) ==
    LET touched == Touch(db, product_id, time)
        removed == [touched EXCEPT !.mapping = {m \in @ : m[1] # product_id}]
    IN  IF fail = 1
        THEN [db |-> Rollback(db, removed),
              response |-> [status |-> IF app = "flask" THEN 500 ELSE 400,
                            error |-> "OperationalError"]]
        ELSE [db |-> removed, response |-> [status |-> 200, error |-> ""]]

\* fail = 1: conn.commit() raises sqlite3.OperationalError
RemoveHandler(app, product_id, category_id, fail, db, time) ==
    LET touched == Touch(db, product_id, time)
        removed == [touched EXCEPT !.mapping = @ \ {<<product_id, category_id>>}]
    IN  IF fail = 1
        THEN [db |-> Rollback(db, removed),
              response |-> [status |-> IF app = "flask" THEN 500 ELSE 400,
                            error |-> "OperationalError"]]
        ELSE [db |-> removed, response |-> [status |-> 200, error |-> ""]]

RemoveCategory(app, product_id, category_id, fail) ==
    LET out == RemoveHandler(app, product_id, category_id, fail, Database, now + 1)
    IN  /\ Handled([op |-> "remove", app |-> app, product_id |-> product_id,
                    category_id |-> category_id, fail |-> fail], out.response)
        /\ Commit(out.db)
        /\ UNCHANGED category_json

(***************************************************************************)
(* POST /api/products/bulk-assign-categories                               *)
(* POST /api/categories/<category_id>/products                             *)
(***************************************************************************)
NoStats == [categories_added |-> 0, parent_categories_added |-> 0, products_updated |-> 0]

\* BulkAssignPass that counts before the test `not in current_categories`: every
\* category of categories_to_add counts, inserted or not
BulkAssignPassCountAll(work, product_id, categories_to_add, parent_categories, time, raises) ==
    LET current_categories == CategoriesOf(work.db.mapping, product_id)
        inserted == InsertMissing(work.db, "flask", product_id, categories_to_add,
                                  current_categories)
        counted  == [work.stats EXCEPT
                        !.categories_added = @ + Cardinality(categories_to_add),
                        !.parent_categories_added =
                            @ + Cardinality(categories_to_add \cap parent_categories)]
    IN  IF raises
        THEN [db |-> inserted.db, stats |-> counted]
        ELSE [db |-> Touch(inserted.db, product_id, time),
              stats |-> [counted EXCEPT !.products_updated = @ + 1]]

\* one pass of   for product_id in product_ids:   of either bulk assign handler.
\* work: [db, stats] so far. raises: the UPDATE of this pass raises, so the pass
\* stops after its INSERTs.
BulkAssignPass(work, product_id, categories_to_add, parent_categories, time, raises) ==
    LET current_categories == CategoriesOf(work.db.mapping, product_id)
        inserted == InsertMissing(work.db, "flask", product_id, categories_to_add,
                                  current_categories)
        counted  == [work.stats EXCEPT
                        !.categories_added = @ + Cardinality(inserted.added),
                        !.parent_categories_added =
                            @ + Cardinality(inserted.added \cap parent_categories)]
    IN  IF raises
        THEN [db |-> inserted.db, stats |-> counted]
        ELSE [db |-> Touch(inserted.db, product_id, time),
              stats |-> [counted EXCEPT !.products_updated = @ + 1]]

\* the loop over product_ids[1..n]; when fail = n the last pass raises
RECURSIVE BulkAssignLoop(_, _, _, _, _, _, _)
BulkAssignLoop(db, product_ids, n, categories_to_add, parent_categories, time, fail) ==
    IF n = 0
    THEN [db |-> db, stats |-> NoStats]
    ELSE BulkAssignPass(BulkAssignLoop(db, product_ids, n - 1, categories_to_add,
                                       parent_categories, time, fail),
                        product_ids[n], categories_to_add, parent_categories, time,
                        fail = n)

\* bulk_assign_multiple_categories. fail = k > 0: the UPDATE of the k-th pass
\* raises sqlite3.OperationalError
BulkAssignHandler(product_ids, category_ids, fail, categories, db, time) ==
    IF product_ids = << >> \/ category_ids = {}
    THEN \* the return inside try runs finally: conn.close() with conn unbound
         [db |-> db, response |-> [status |-> 500, error |-> "UnboundLocalError"]]
    ELSE
    LET \* a requested id with no record is skipped by `continue`
        known == {c \in category_ids : FindCategory(categories, c) # 0}
    IN  IF ~WalksHalt(categories, known)
        THEN [db |-> db, response |-> [status |-> 0, error |-> "no response"]]
        ELSE
        LET parent_categories     == ParentCategories(categories, known)
            all_categories_to_add == category_ids \cup parent_categories
            last == IF fail = 0 THEN Len(product_ids) ELSE fail
            work == BulkAssignLoop(db, product_ids, last, all_categories_to_add,
                                   parent_categories, time, fail)
        IN  IF fail # 0
            THEN [db |-> Rollback(db, work.db),
                  response |-> [status |-> 500, error |-> "OperationalError"]]
            ELSE [db |-> work.db,
                  response |-> [status |-> 200, error |-> "",
                                stats |-> [total_products |-> Len(product_ids),
                                           total_categories |-> Cardinality(category_ids),
                                           categories_added |-> work.stats.categories_added,
                                           parent_categories_added |->
                                               work.stats.parent_categories_added,
                                           products_updated |->
                                               work.stats.products_updated]]]

BulkAssign(product_ids, category_ids, fail) ==
    LET out == BulkAssignHandler(product_ids, category_ids, fail, category_json,
                                 Database, now + 1)
    IN  /\ Handled([op |-> "bulk_assign", product_ids |-> product_ids,
                    category_ids |-> category_ids, fail |-> fail], out.response)
        /\ Commit(out.db)
        /\ UNCHANGED category_json

\* bulk_assign_category: one category for many products
BulkAssignCategoryHandler(category_id, product_ids, fail, categories, db, time) ==
    IF product_ids = << >>
    THEN [db |-> db, response |-> [status |-> 500, error |-> "UnboundLocalError"]]
    ELSE IF FindCategory(categories, category_id) = 0
    THEN \* raise ValueError(f"Category {category_id} not found")
         [db |-> Rollback(db, db), response |-> [status |-> 500, error |-> "ValueError"]]
    ELSE IF ~WalksHalt(categories, {category_id})
    THEN [db |-> db, response |-> [status |-> 0, error |-> "no response"]]
    ELSE
    LET parent_categories == ParentCategories(categories, {category_id})
        categories_to_add == {category_id} \cup parent_categories
        last == IF fail = 0 THEN Len(product_ids) ELSE fail
        work == BulkAssignLoop(db, product_ids, last, categories_to_add,
                               parent_categories, time, fail)
    IN  IF fail # 0
        THEN [db |-> Rollback(db, work.db),
              response |-> [status |-> 500, error |-> "OperationalError"]]
        ELSE [db |-> work.db,
              response |-> [status |-> 200, error |-> "",
                            stats |-> [total_products |-> Len(product_ids),
                                       categories_added |-> work.stats.categories_added,
                                       parent_categories_added |->
                                           work.stats.parent_categories_added,
                                       products_updated |-> work.stats.products_updated]]]

BulkAssignCategory(category_id, product_ids, fail) ==
    LET out == BulkAssignCategoryHandler(category_id, product_ids, fail, category_json,
                                         Database, now + 1)
    IN  /\ Handled([op |-> "bulk_assign_category", product_ids |-> product_ids,
                    category_id |-> category_id, fail |-> fail], out.response)
        /\ Commit(out.db)
        /\ UNCHANGED category_json

(***************************************************************************)
(* POST /api/products/bulk-remove-categories                               *)
(***************************************************************************)
NoRemoveStats == [categories_removed |-> 0, products_updated |-> 0]

\* BulkRemovePass that touches and counts every listed product, as remove_category does
BulkRemovePassTouchAlways(work, product_id, category_ids, time, raises) ==
    LET present == {c \in category_ids : <<product_id, c>> \in work.db.mapping}
        deleted == [work.db EXCEPT !.mapping = @ \ {<<product_id, c>> : c \in present}]
        counted == [work.stats EXCEPT !.categories_removed = @ + Cardinality(present)]
    IN  IF raises
        THEN [db |-> deleted, stats |-> counted]
        ELSE [db |-> Touch(deleted, product_id, time),
              stats |-> [counted EXCEPT !.products_updated = @ + 1]]

\* one pass of   for product_id in product_ids:   every DELETE with rowcount > 0
\* counts; the product is touched if one did. raises: the last statement of the
\* pass raises (the UPDATE if there is one, else the last DELETE).
BulkRemovePass(work, product_id, category_ids, time, raises) ==
    LET present == {c \in category_ids : <<product_id, c>> \in work.db.mapping}
        product_had_categories == present # {}
        deleted == [work.db EXCEPT !.mapping = @ \ {<<product_id, c>> : c \in present}]
        counted == [work.stats EXCEPT !.categories_removed = @ + Cardinality(present)]
    IN  IF raises \/ ~product_had_categories
        THEN [db |-> deleted, stats |-> counted]
        ELSE [db |-> Touch(deleted, product_id, time),
              stats |-> [counted EXCEPT !.products_updated = @ + 1]]

RECURSIVE BulkRemoveLoop(_, _, _, _, _, _)
BulkRemoveLoop(db, product_ids, n, category_ids, time, fail) ==
    IF n = 0
    THEN [db |-> db, stats |-> NoRemoveStats]
    ELSE BulkRemovePass(BulkRemoveLoop(db, product_ids, n - 1, category_ids, time, fail),
                        product_ids[n], category_ids, time, fail = n)

\* fail = k > 0: the last statement of the k-th pass raises sqlite3.OperationalError
BulkRemoveHandler(product_ids, category_ids, fail, db, time) ==
    IF product_ids = << >> \/ category_ids = {}
    THEN [db |-> db, response |-> [status |-> 500, error |-> "UnboundLocalError"]]
    ELSE
    LET last == IF fail = 0 THEN Len(product_ids) ELSE fail
        work == BulkRemoveLoop(db, product_ids, last, category_ids, time, fail)
    IN  IF fail # 0
        THEN [db |-> Rollback(db, work.db),
              response |-> [status |-> 500, error |-> "OperationalError"]]
        ELSE [db |-> work.db,
              response |-> [status |-> 200, error |-> "",
                            stats |-> [total_products |-> Len(product_ids),
                                       total_categories |-> Cardinality(category_ids),
                                       categories_removed |-> work.stats.categories_removed,
                                       products_updated |-> work.stats.products_updated]]]

BulkRemove(product_ids, category_ids, fail) ==
    LET out == BulkRemoveHandler(product_ids, category_ids, fail, Database, now + 1)
    IN  /\ Handled([op |-> "bulk_remove", product_ids |-> product_ids,
                    category_ids |-> category_ids, fail |-> fail], out.response)
        /\ Commit(out.db)
        /\ UNCHANGED category_json

(***************************************************************************)
(* The mirror table categories.                                            *)
(***************************************************************************)
\* utility/sync_categories.py: one row (id, category_level, connected_to) per record
SyncRow(cat) == [id |-> cat.category_name, category_level |-> cat.category_level,
                 connected_to |-> cat.connected_to]

\* "absent": no script has created the table (app.py never does);
\* "sync": utility/sync_categories.py did
MirrorSchemas == {"absent", "sync"}

\* INSERT OR REPLACE INTO categories (id, category_level, connected_to) raises
\* sqlite3.OperationalError unless the table has these columns
MirrorInsertRaises(schema) == schema # "sync"

\* DELETE FROM categories WHERE id = ? raises when there is no such table
MirrorDeleteRaises(schema) == schema = "absent"

\* with open('data/category.json', 'w') as f: json.dump(categories, f, indent=2)
\* open truncates the file and json.dump writes it piece by piece. fail >= 3: the
\* process dies in between; of the list being written the file keeps the first
\* fail - 3 records
Dies(fail) == fail >= 3

WrittenPart(new_categories, fail) ==
    SubSeq(new_categories, 1,
           IF fail - 3 < Len(new_categories) THEN fail - 3 ELSE Len(new_categories))

\* the request of a process that died has no response
NoResponse == [status |-> 0, error |-> "process died"]

(***************************************************************************)
(* POST /api/categories/create                                             *)
(***************************************************************************)
\* CreateHandler without the check for a duplicate category name
CreateHandlerNoDuplicateCheck(name, level, parent_id, fail, categories, rows, schema) ==
    LET same == [category_json |-> categories, categories |-> rows]
        new_category == [category_name |-> name,
                         category_level |-> LevelName(level),
                         connected_to |-> IF level > 1 /\ parent_id # Missing
                                          THEN parent_id ELSE Null]
    IN
    IF level \notin {1, 2, 3}
    THEN [stores |-> same,
          response |-> [status |-> 400, error |-> "Invalid category level"]]
    ELSE IF level > 1 /\ parent_id = Missing
    THEN [stores |-> same,
          response |-> [status |-> 400,
                        error |-> "Parent category required for level 2 and 3 categories"]]
    ELSE IF fail = 2
    THEN [stores |-> same, response |-> [status |-> 500, error |-> "OSError"]]
    ELSE IF Dies(fail)
    THEN [stores |-> [category_json |->
                          WrittenPart(Append(categories, new_category), fail),
                      categories |-> rows],
          response |-> NoResponse]
    ELSE [stores |-> [category_json |-> Append(categories, new_category),
                      categories |->
                          IF MirrorInsertRaises(schema)
                          THEN rows
                          ELSE {r \in rows : r.id # name} \cup {SyncRow(new_category)}],
          response |-> [status |-> 200, error |-> "", category |-> new_category]]

\* CreateHandler without the try around the mirror INSERT: its exception reaches
\* the handler of the file errors, after the file has been written
CreateHandlerMirrorFatal(name, level, parent_id, fail, categories, rows, schema) ==
    LET same == [category_json |-> categories, categories |-> rows]
        new_category == [category_name |-> name,
                         category_level |-> LevelName(level),
                         connected_to |-> IF level > 1 /\ parent_id # Missing
                                          THEN parent_id ELSE Null]
    IN
    IF level \notin {1, 2, 3}
    THEN [stores |-> same,
          response |-> [status |-> 400, error |-> "Invalid category level"]]
    ELSE IF level > 1 /\ parent_id = Missing
    THEN [stores |-> same,
          response |-> [status |-> 400,
                        error |-> "Parent category required for level 2 and 3 categories"]]
    ELSE IF FindCategory(categories, name) # 0
    THEN [stores |-> same,
          response |-> [status |-> 400, error |-> "Category name already exists",
                        existing_category |-> categories[FindCategory(categories, name)]]]
    ELSE IF fail = 2
    THEN [stores |-> same, response |-> [status |-> 500, error |-> "OSError"]]
    ELSE IF Dies(fail)
    THEN [stores |-> [category_json |->
                          WrittenPart(Append(categories, new_category), fail),
                      categories |-> rows],
          response |-> NoResponse]
    ELSE IF MirrorInsertRaises(schema)
    THEN [stores |-> [category_json |-> Append(categories, new_category),
                      categories |-> rows],
          response |-> [status |-> 500, error |-> "OperationalError"]]
    ELSE [stores |-> [category_json |-> Append(categories, new_category),
                      categories |-> {r \in rows : r.id # name} \cup {SyncRow(new_category)}],
          response |-> [status |-> 200, error |-> "", category |-> new_category]]

\* fail = 2: open('data/category.json', 'w') raises OSError, the file is as it was;
\* fail >= 3: the process dies while json.dump writes the file
CreateHandler(name, level, parent_id, fail, categories, rows, schema) ==
    LET same == [category_json |-> categories, categories |-> rows]
    IN
    IF level \notin {1, 2, 3}
    THEN [stores |-> same,
          response |-> [status |-> 400, error |-> "Invalid category level"]]
    ELSE IF level > 1 /\ parent_id = Missing
    THEN [stores |-> same,
          response |-> [status |-> 400,
                        error |-> "Parent category required for level 2 and 3 categories"]]
    ELSE IF FindCategory(categories, name) # 0
    THEN [stores |-> same,
          response |-> [status |-> 400, error |-> "Category name already exists",
                        existing_category |-> categories[FindCategory(categories, name)]]]
    ELSE
    LET \* data.get('parent_id') if data['level'] > 1 else None
        new_category == [category_name |-> name,
                         category_level |-> LevelName(level),
                         connected_to |-> IF level > 1 /\ parent_id # Missing
                                          THEN parent_id ELSE Null]
    IN  IF fail = 2
        THEN [stores |-> same, response |-> [status |-> 500, error |-> "OSError"]]
        ELSE IF Dies(fail)
        THEN [stores |-> [category_json |->
                              WrittenPart(Append(categories, new_category), fail),
                          categories |-> rows],
              response |-> NoResponse]
        ELSE [stores |-> [category_json |-> Append(categories, new_category),
                          categories |->
                              IF MirrorInsertRaises(schema)
                              THEN rows   \* print("Warning: Failed to sync ...")
                              ELSE {r \in rows : r.id # name} \cup {SyncRow(new_category)}],
              response |-> [status |-> 200, error |-> "", category |-> new_category]]

Create(name, level, parent_id, fail) ==
    LET out == CreateHandler(name, level, parent_id, fail, category_json,
                             categories_table, mirror_schema)
    IN  /\ Handled([op |-> "create", name |-> name, level |-> level,
                    parent_id |-> parent_id, fail |-> fail], out.response)
        /\ category_json' = out.stores.category_json
        /\ categories_table' = out.stores.categories
        /\ UNCHANGED <<product_category_mapping, last_modified>>

(***************************************************************************)
(* DELETE /api/categories/delete                                           *)
(***************************************************************************)
\* ChildNames that looks for children among the level 2 records only, as the
\* hasChildren of get_level1_categories does
ChildNamesLevel2(categories, category_name) ==
    LET idx == {i \in 1..Len(categories) :
                   /\ categories[i].connected_to = category_name
                   /\ categories[i].category_level = "Level 2 Category"}
        RECURSIVE InOrder(_)
        InOrder(n) == IF n = 0 THEN << >>
                      ELSE IF n \in idx
                           THEN Append(InOrder(n - 1), categories[n].category_name)
                           ELSE InOrder(n - 1)
    IN  InOrder(Len(categories))

\* [cat['category_name'] for cat in categories if cat.get('connected_to') == category_name]
ChildNames(categories, category_name) ==
    LET idx == {i \in 1..Len(categories) : categories[i].connected_to = category_name}
        RECURSIVE InOrder(_)
        InOrder(n) == IF n = 0 THEN << >>
                      ELSE IF n \in idx
                           THEN Append(InOrder(n - 1), categories[n].category_name)
                           ELSE InOrder(n - 1)
    IN  InOrder(Len(categories))

\* [cat for cat in categories if cat['category_name'] != category_name]
WithoutCategory(categories, category_name) ==
    LET RECURSIVE Keep(_)
        Keep(n) == IF n = 0 THEN << >>
                   ELSE IF categories[n].category_name # category_name
                        THEN Append(Keep(n - 1), categories[n])
                        ELSE Keep(n - 1)
    IN  Keep(Len(categories))

\* DeleteTransaction whose first DELETE takes every row of the products that have
\* the category
DeleteTransactionWholeProducts(db, category_name, time) ==
    LET having == {m[1] : m \in {x \in db.mapping : x[2] = category_name}}
        unmapped == [db EXCEPT !.mapping = {m \in @ : m[1] \notin having}]
    IN  [unmapped EXCEPT !.categories = {r \in @ : r.id # category_name}]

\* the statements between BEGIN TRANSACTION and conn.commit(), in their order
DeleteTransaction(db, category_name, time) ==
    LET \* DELETE FROM product_category_mapping WHERE category_id = ?
        unmapped == [db EXCEPT !.mapping = {m \in @ : m[2] # category_name}]
        \* DELETE FROM categories WHERE id = ?
        unmirrored == [unmapped EXCEPT !.categories = {r \in @ : r.id # category_name}]
        \* UPDATE product_categories ... WHERE product_id IN (SELECT DISTINCT product_id
        \*   FROM product_category_mapping WHERE category_id = ?), read after the DELETE
        affected == {m[1] : m \in {x \in unmirrored.mapping : x[2] = category_name}}
    IN  [unmirrored EXCEPT !.last_modified =
            [p \in Products |-> IF p \in affected THEN time ELSE @[p]]]

\* DeleteHandler that rewrites the hierarchy file before it commits the transaction
DeleteHandlerFileFirst(category_name, fail, categories, db, schema, time) ==
    IF FindCategory(categories, category_name) = 0
    THEN [category_json |-> categories, db |-> db,
          response |-> [status |-> 404, error |-> "Category not found"]]
    ELSE IF ChildNames(categories, category_name) # << >>
    THEN [category_json |-> categories, db |-> db,
          response |-> [status |-> 400,
                        error |-> "Cannot delete category with child categories",
                        child_categories |-> ChildNames(categories, category_name)]]
    ELSE
    LET work == DeleteTransaction(db, category_name, time)
        updated_categories == WithoutCategory(categories, category_name)
    IN  IF fail = 2
        THEN [category_json |-> categories, db |-> Rollback(db, work),
              response |-> [status |-> 500, error |-> "OSError"]]
        ELSE IF Dies(fail)
        THEN [category_json |-> WrittenPart(updated_categories, fail), db |-> db,
              response |-> NoResponse]
        ELSE IF MirrorDeleteRaises(schema) \/ fail = 1
        THEN [category_json |-> updated_categories, db |-> Rollback(db, work),
              response |-> [status |-> 500, error |-> "OperationalError"]]
        ELSE [category_json |-> updated_categories, db |-> work,
              response |-> [status |-> 200, error |-> "",
                            category |-> categories[FindCategory(categories, category_name)],
                            removed_from_products |->
                                Cardinality({m \in db.mapping : m[2] = category_name}),
                            removed_from_categories_table |->
                                Cardinality({r \in db.categories : r.id = category_name})]]

\* fail = 1: conn.commit() raises sqlite3.OperationalError;
\* fail = 2: open('data/category.json', 'w') raises OSError, the file is as it was;
\* fail >= 3: the process dies while json.dump writes the file
DeleteHandler(category_name, fail, categories, db, schema, time) ==
    IF FindCategory(categories, category_name) = 0
    THEN [category_json |-> categories, db |-> db,
          response |-> [status |-> 404, error |-> "Category not found"]]
    ELSE IF ChildNames(categories, category_name) # << >>
    THEN [category_json |-> categories, db |-> db,
          response |-> [status |-> 400,
                        error |-> "Cannot delete category with child categories",
                        child_categories |-> ChildNames(categories, category_name)]]
    ELSE
    LET work == DeleteTransaction(db, category_name, time)
    IN  IF MirrorDeleteRaises(schema) \/ fail = 1
        THEN [category_json |-> categories, db |-> Rollback(db, work),
              response |-> [status |-> 500, error |-> "OperationalError"]]
        ELSE IF fail = 2
        THEN \* the transaction is committed; conn.rollback() finds nothing to undo
             [category_json |-> categories, db |-> work,
              response |-> [status |-> 500, error |-> "OSError"]]
        ELSE IF Dies(fail)
        THEN \* the transaction is committed
             [category_json |->
                  WrittenPart(WithoutCategory(categories, category_name), fail),
              db |-> work, response |-> NoResponse]
        ELSE [category_json |-> WithoutCategory(categories, category_name), db |-> work,
              response |-> [status |-> 200, error |-> "",
                            category |-> categories[FindCategory(categories, category_name)],
                            removed_from_products |->
                                Cardinality({m \in db.mapping : m[2] = category_name}),
                            removed_from_categories_table |->
                                Cardinality({r \in db.categories : r.id = category_name})]]

Delete(category_name, fail) ==
    LET out == DeleteHandler(category_name, fail, category_json, Database,
                             mirror_schema, now + 1)
    IN  /\ Handled([op |-> "delete", category_name |-> category_name, fail |-> fail],
                   out.response)
        /\ Commit(out.db)
        /\ category_json' = out.category_json

(***************************************************************************)
(* Connections: the state of a request that shares the database with       *)
(* another request in flight.                                              *)
(***************************************************************************)
\* the connections of the requests that may be in flight together
Connections == {1, 2}

\* a connection no request has opened yet
IdleConnection ==
    [pc |-> "idle", request |-> [op |-> "none"], i |-> 0, current_categories |-> {},
     holds |-> "none",
     work |-> [mapping |-> {}, last_modified |-> [p \in Products |-> 0], categories |-> {}],
     stats |-> NoStats, added_categories |-> {}, skipped |-> {},
     categories |-> << >>, parent_categories |-> {},
     response |-> [status |-> 0, error |-> ""]]

(***************************************************************************)
(* Initial states: a well-formed hierarchy file and any assignment table.  *)
(***************************************************************************)
Chain == << CategoryRecord("A", 1, Null), CategoryRecord("B", 2, "A"),
            CategoryRecord("C", 3, "B") >>
Fork  == << CategoryRecord("A", 1, Null), CategoryRecord("B", 2, "A"),
            CategoryRecord("C", 2, "A") >>
Stub  == << CategoryRecord("A", 1, Null), CategoryRecord("B", 2, "A") >>

InitialTrees == {Chain, Fork, Stub}

Apps == {"flask", "fastapi"}

\* the product_ids lists of the bulk requests, with the pass that raises (0: none)
ProductLists == UNION {[1..n -> ProductIds] : n \in 0..MaxBatch}

\* the rows the sync or migration script leaves for a hierarchy file
MirrorRows(schema, categories) ==
    IF schema = "sync"
    THEN {SyncRow(categories[i]) : i \in 1..Len(categories)}
    ELSE {}

Init ==
    /\ category_json \in InitialTrees
    /\ product_category_mapping \in SUBSET (Products \X CategoryIds)
    /\ last_modified = [p \in Products |-> 0]
    /\ mirror_schema \in MirrorSchemas
    /\ categories_table = MirrorRows(mirror_schema, category_json)
    /\ now = 0
    /\ request = [op |-> "none"]
    /\ response = [status |-> 0, error |-> ""]
    /\ before = Stores
    /\ connections = [c \in Connections |-> IdleConnection]

\* what may happen to the rewrite of the hierarchy file: nothing (0), OSError (2),
\* the death of the process after 0..MaxWritten records
FileFailures == {0, 2} \cup {3 + k : k \in 0..MaxWritten}

\* a request arrives while the clock runs
Arrives == now < MaxTime

AssignRequest ==
    /\ Arrives
    /\ \E app \in Apps, p \in ProductIds, cs \in SUBSET CategoryIds, fail \in {0, 1} :
          Assign(app, p, cs, fail)

RemoveCategoryRequest ==
    /\ Arrives
    /\ \E app \in Apps, p \in ProductIds, c \in CategoryIds, fail \in {0, 1} :
          RemoveCategory(app, p, c, fail)

BulkAssignRequest ==
    /\ Arrives
    /\ \E ps \in ProductLists, cs \in SUBSET CategoryIds :
          \E fail \in 0..Len(ps) : BulkAssign(ps, cs, fail)

BulkAssignCategoryRequest ==
    /\ Arrives
    /\ \E ps \in ProductLists, c \in CategoryIds :
          \E fail \in 0..Len(ps) : BulkAssignCategory(c, ps, fail)

BulkRemoveRequest ==
    /\ Arrives
    /\ \E ps \in ProductLists, cs \in SUBSET CategoryIds :
          \E fail \in 0..Len(ps) : BulkRemove(ps, cs, fail)

CreateRequest ==
    /\ Arrives
    /\ \E name \in CategoryIds, level \in Levels,
          parent_id \in {Missing, Null} \cup CategoryIds, fail \in FileFailures :
          Create(name, level, parent_id, fail)

DeleteRequest ==
    /\ Arrives
    /\ \E c \in CategoryIds, fail \in {1} \cup FileFailures : Delete(c, fail)

Next ==
    \/ AssignRequest
    \/ RemoveCategoryRequest
    \/ BulkAssignRequest
    \/ BulkAssignCategoryRequest
    \/ BulkRemoveRequest
    \/ CreateRequest
    \/ DeleteRequest

Spec == Init /\ [][Next]_vars

(***************************************************************************)
(* A second specification: any request, then the same assign once more.    *)
(***************************************************************************)
\* the assign that has just succeeded is sent again, and nothing fails
AssignAgainRequest ==
    /\ now = MaxTime
    /\ request.op = "assign"
    /\ response.status = 200
    /\ Assign(request.app, request.product_id, request.category_ids, 0)

NextRepeat == Next \/ AssignAgainRequest

SpecRepeat == Init /\ [][NextRepeat]_vars

(***************************************************************************)
(* A third specification: the hierarchy under a sequence of create and     *)
(* delete requests, handled one at a time.                                 *)
(***************************************************************************)
\* number of create and delete requests in one behaviour
MaxTreeRequests == 3

\* the names a create or delete request of this specification may send: "a" is
\* another name than "A"
TreeNames == CategoryIds \cup {"a"}

\* an installation whose hierarchy file is [] or one of the initial trees
TreeInit ==
    /\ category_json \in InitialTrees \cup {<< >>}
    /\ product_category_mapping = {<<"P1", "A">>, <<"P1", "B">>, <<"P2", "A">>}
    /\ last_modified = [p \in Products |-> 0]
    /\ mirror_schema \in MirrorSchemas
    /\ categories_table = MirrorRows(mirror_schema, category_json)
    /\ now = 0
    /\ request = [op |-> "none"]
    /\ response = [status |-> 0, error |-> ""]
    /\ before = Stores
    /\ connections = [c \in Connections |-> IdleConnection]

TreeCreateRequest ==
    /\ now < MaxTreeRequests
    /\ \E name \in TreeNames, level \in Levels,
          parent_id \in {Missing, Null} \cup CategoryIds, fail \in {0, 2} :
          Create(name, level, parent_id, fail)

TreeDeleteRequest ==
    /\ now < MaxTreeRequests
    /\ \E c \in TreeNames, fail \in {0, 1, 2} : Delete(c, fail)

NextTree == TreeCreateRequest \/ TreeDeleteRequest

SpecTree == TreeInit /\ [][NextTree]_vars

(***************************************************************************)
(* A fourth specification: two assign or bulk assign requests in flight at *)
(* once, each on its own sqlite3 connection (the servers handle requests   *)
(* on threads). A step is one statement, or one run of statements between  *)
(* which no other connection can act on the database:                      *)
(*   select   SELECT category_id ... WHERE product_id = ?                  *)
(*   write    the UPDATE and the INSERTs of one product                    *)
(*   commit   conn.commit()                                                *)
(*   respond  the SELECT after the commit (assign_categories of app.py)    *)
(* SQLite's locks: a connection inside BEGIN TRANSACTION keeps the SHARED  *)
(* lock of its SELECT; the first write of a transaction takes the RESERVED *)
(* lock, which one connection holds at a time; a commit takes the          *)
(* EXCLUSIVE lock, which needs every other connection to hold no lock. A   *)
(* connection that cannot get its lock waits for it, or raises             *)
(* sqlite3.OperationalError (database is locked).                          *)
(***************************************************************************)
Other(c) == CHOOSE d \in Connections : d # c

\* the database as connection c reads it: its own transaction's writes included
View(c) == IF connections[c].holds = "reserved" THEN connections[c].work ELSE Database

\* the product the next statements of connection c are about
ProductAt(conn) ==
    IF conn.request.op = "assign" THEN conn.request.product_id
    ELSE conn.request.product_ids[conn.i]

\* the statement connection c is at cannot get its lock now
Locked(c) ==
    LET conn == connections[c]
        other == connections[Other(c)]
    IN  \/ conn.pc \in {"select", "respond"} /\ conn.holds = "none"
             /\ other.pc = "commit"
        \/ conn.pc = "write" /\ other.holds = "reserved"
        \/ conn.pc = "commit" /\ other.holds # "none"

\* except Exception: conn.rollback(); the error response; finally: conn.close()
RaiseLocked(c) ==
    /\ connections[c].pc \in {"select", "write", "commit", "respond"}
    /\ Locked(c)
    /\ connections' = [connections EXCEPT ![c] =
           [@ EXCEPT !.pc = "done", !.holds = "none",
                     !.response = [status |-> IF connections[c].request.op = "assign"
                                                 /\ connections[c].request.app = "fastapi"
                                              THEN 400 ELSE 500,
                                   error |-> "database is locked"]]]
    /\ UNCHANGED <<category_json, product_category_mapping, last_modified,
                   categories_table, mirror_schema, now, request, response, before>>

\* the connection of a request at its first statement
OpenConnection(req) ==
    [pc |-> "select", request |-> req, i |-> 1, current_categories |-> {},
     holds |-> "none",
     work |-> [mapping |-> {}, last_modified |-> [p \in Products |-> 0], categories |-> {}],
     stats |-> NoStats, added_categories |-> {}, skipped |-> {},
     categories |-> << >>, parent_categories |-> {},
     response |-> [status |-> 0, error |-> ""]]

\* the request reaches the handler, which opens its connection
Accept(c, req) ==
    /\ connections[c].pc = "idle"
    /\ now' = now + 1
    /\ connections' = [connections EXCEPT ![c] = OpenConnection(req)]
    /\ UNCHANGED <<category_json, product_category_mapping, last_modified,
                   categories_table, mirror_schema, request, response, before>>

\* SELECT category_id FROM product_category_mapping WHERE product_id = ?
\* The bulk handlers have run BEGIN TRANSACTION and keep the SHARED lock.
Select(c) ==
    LET conn == connections[c]
    IN  /\ conn.pc = "select"
        /\ conn.request.op \in {"assign", "bulk_assign"}
        /\ ~Locked(c)
        /\ connections' = [connections EXCEPT ![c] =
               [@ EXCEPT !.pc = "write",
                         !.current_categories =
                             CategoriesOf(View(c).mapping, ProductAt(conn)),
                         \* the bulk handler has walked the parents before its loop
                         !.parent_categories =
                             IF conn.request.op = "bulk_assign" /\ conn.i = 1
                             THEN ParentCategories(category_json,
                                                   conn.request.category_ids)
                             ELSE @,
                         !.holds = IF conn.request.op = "assign" \/ @ = "reserved"
                                   THEN @ ELSE "shared"]]
        /\ UNCHANGED <<category_json, product_category_mapping, last_modified,
                       categories_table, mirror_schema, now, request, response, before>>

\* assign_categories from the walk of the parents to the last INSERT
WriteAssign(c) ==
    LET conn == connections[c]
        req  == conn.request
        parent_categories == ParentCategories(category_json, req.category_ids)
        categories_to_add == req.category_ids \cup parent_categories
        touched  == Touch(View(c), req.product_id, now)
        inserted == InsertMissing(touched, req.app, req.product_id, categories_to_add,
                                  conn.current_categories)
    IN  /\ conn.pc = "write"
        /\ req.op = "assign"
        /\ ~Locked(c)
        /\ connections' = [connections EXCEPT ![c] =
               [@ EXCEPT !.pc = "commit", !.holds = "reserved",
                         !.parent_categories = parent_categories,
                         !.work = inserted.db,
                         !.added_categories = inserted.added,
                         !.skipped = (categories_to_add \ conn.current_categories)
                                         \ inserted.added]]
        /\ UNCHANGED <<category_json, product_category_mapping, last_modified,
                       categories_table, mirror_schema, now, request, response, before>>

\* bulk_assign_multiple_categories: the INSERTs and the UPDATE of one product
WriteBulk(c) ==
    LET conn == connections[c]
        req  == conn.request
        parent_categories == conn.parent_categories
        all_categories_to_add == req.category_ids \cup parent_categories
        pass == BulkAssignPass([db |-> View(c), stats |-> conn.stats],
                               req.product_ids[conn.i], all_categories_to_add,
                               parent_categories, now, FALSE)
    IN  /\ conn.pc = "write"
        /\ req.op = "bulk_assign"
        /\ ~Locked(c)
        /\ connections' = [connections EXCEPT ![c] =
               [@ EXCEPT !.pc = IF conn.i = Len(req.product_ids)
                                THEN "commit" ELSE "select",
                         !.i = IF conn.i = Len(req.product_ids) THEN @ ELSE @ + 1,
                         !.holds = "reserved",
                         !.work = pass.db,
                         !.stats = pass.stats]]
        /\ UNCHANGED <<category_json, product_category_mapping, last_modified,
                       categories_table, mirror_schema, now, request, response, before>>

\* conn.commit(), and the response of the handlers that read nothing after it
CommitConnection(c) ==
    LET conn == connections[c]
        req  == conn.request
        parent_categories == conn.parent_categories
    IN  /\ conn.pc = "commit"
        /\ req.op \in {"assign", "bulk_assign"}
        /\ ~Locked(c)
        /\ Commit(conn.work)
        /\ connections' = [connections EXCEPT ![c] =
               IF req.op = "assign" /\ req.app = "flask"
               THEN [@ EXCEPT !.pc = "respond", !.holds = "none"]
               ELSE [@ EXCEPT
                       !.pc = "done", !.holds = "none",
                       !.response =
                           IF req.op = "assign"
                           THEN [status |-> 200, error |-> "",
                                 added_categories |-> conn.added_categories,
                                 parent_categories_added |->
                                     Cardinality(parent_categories \ req.category_ids),
                                 total_categories |->
                                     Cardinality(req.category_ids \cup parent_categories)]
                           ELSE [status |-> 200, error |-> "",
                                 stats |-> [total_products |-> Len(req.product_ids),
                                            total_categories |->
                                                Cardinality(req.category_ids),
                                            categories_added |->
                                                conn.stats.categories_added,
                                            parent_categories_added |->
                                                conn.stats.parent_categories_added,
                                            products_updated |->
                                                conn.stats.products_updated]]]]
        /\ UNCHANGED <<category_json, mirror_schema, now, request, response, before>>

\* assign_categories of app.py: the SELECT after the commit and the response
Respond(c) ==
    LET conn == connections[c]
        req  == conn.request
        parent_categories == conn.parent_categories
    IN  /\ conn.pc = "respond"
        /\ ~Locked(c)
        /\ connections' = [connections EXCEPT ![c] =
               [@ EXCEPT !.pc = "done",
                         !.response =
                             [status |-> 200, error |-> "",
                              added_categories |-> conn.added_categories,
                              parent_categories_added |->
                                  Cardinality(parent_categories \ req.category_ids),
                              categories |-> CategoriesOf(product_category_mapping,
                                                          req.product_id)]]]
        /\ UNCHANGED <<category_json, product_category_mapping, last_modified,
                       categories_table, mirror_schema, now, request, response, before>>

\* the two requests find the chain or the fork and a table with some rows
ConcurrentInit ==
    /\ category_json \in {Chain, Fork}
    /\ product_category_mapping \in {{}, {<<"P1", "A">>}}
    /\ last_modified = [p \in Products |-> 0]
    /\ mirror_schema = "absent"
    /\ categories_table = MirrorRows(mirror_schema, category_json)
    /\ now = 0
    /\ request = [op |-> "none"]
    /\ response = [status |-> 0, error |-> ""]
    /\ before = Stores
    /\ connections = [c \in Connections |-> IdleConnection]

\* the product_ids lists of a bulk request that goes past its validation, each
\* product listed once
ProductBatches ==
    {ps \in UNION {[1..n -> Products] : n \in 1..MaxBatch} :
        \A i, j \in 1..Len(ps) : ps[i] = ps[j] => i = j}

\* a connection no request has opened is left
SomeIdle == \E c \in Connections : connections[c].pc = "idle"

AcceptAssign ==
    /\ SomeIdle
    /\ \E c \in Connections, app \in Apps, p \in Products,
          cs \in (SUBSET CategoryIds) \ {{}} :
          Accept(c, [op |-> "assign", app |-> app, product_id |-> p,
                     category_ids |-> cs])

AcceptBulkAssign ==
    /\ SomeIdle
    /\ \E c \in Connections, ps \in ProductBatches, cs \in (SUBSET CategoryIds) \ {{}} :
          Accept(c, [op |-> "bulk_assign", product_ids |-> ps, category_ids |-> cs])

SelectStep   == \E c \in Connections : Select(c)
WriteAssignStep == \E c \in Connections : WriteAssign(c)
WriteBulkStep   == \E c \in Connections : WriteBulk(c)
CommitStep   == \E c \in Connections : CommitConnection(c)
RespondStep  == \E c \in Connections : Respond(c)
LockedStep   == \E c \in Connections : RaiseLocked(c)

NextConcurrent ==
    \/ AcceptAssign
    \/ AcceptBulkAssign
    \/ SelectStep
    \/ WriteAssignStep
    \/ WriteBulkStep
    \/ CommitStep
    \/ RespondStep
    \/ LockedStep

SpecConcurrent == ConcurrentInit /\ [][NextConcurrent]_vars

(***************************************************************************)
(* A fifth specification: create requests and then an assign or a bulk     *)
(* assign, handled one at a time, so that the walk of the parents runs     *)
(* over a hierarchy file that create requests have written.                *)
(***************************************************************************)
\* number of requests in one behaviour
MaxWalkRequests == 2

WalkCreateRequest ==
    /\ now < MaxWalkRequests
    /\ \E name \in TreeNames, level \in Levels,
          parent_id \in {Missing, Null} \cup CategoryIds :
          Create(name, level, parent_id, 0)

WalkAssignRequest ==
    /\ now < MaxWalkRequests
    /\ \E app \in Apps, p \in Products, cs \in SUBSET CategoryIds :
          Assign(app, p, cs, 0)

WalkBulkAssignRequest ==
    /\ now < MaxWalkRequests
    /\ \E ps \in ProductBatches, cs \in SUBSET CategoryIds : BulkAssign(ps, cs, 0)

WalkBulkAssignCategoryRequest ==
    /\ now < MaxWalkRequests
    /\ \E ps \in ProductBatches, c \in CategoryIds : BulkAssignCategory(c, ps, 0)

NextWalk ==
    \/ WalkCreateRequest
    \/ WalkAssignRequest
    \/ WalkBulkAssignRequest
    \/ WalkBulkAssignCategoryRequest

SpecWalk == TreeInit /\ [][NextWalk]_vars

(***************************************************************************)
(* A sixth specification: migrate_categories.py, run once on a hierarchy   *)
(* file whose names are unique and on an empty categories table.           *)
(***************************************************************************)
\* most records of the file the script migrates
MaxRecords == 3

\* level_mapping.get(level_str, 1)
map_category_level(level_str) ==
    IF level_str = "Level 1 Category" THEN 1
    ELSE IF level_str = "Level 2 Category" THEN 2
    ELSE IF level_str = "Level 3 Category" THEN 3
    ELSE 1

\* the row the INSERT binds for a record: (id, name, level, parent_id)
MigratedRow(cat) ==
    [id |-> cat.category_name, name |-> cat.category_name,
     level |-> map_category_level(cat.category_level),
     parent_id |-> cat.connected_to]

\* INSERT OR REPLACE on a connection with PRAGMA foreign_keys = ON: the row of the
\* same id is replaced; FOREIGN KEY (parent_id) REFERENCES categories(id) raises
\* sqlite3.IntegrityError unless parent_id is NULL or the id of a row, the new
\* row included
MigrateInsertRaises(rows, row) ==
    /\ row.parent_id # Null
    /\ row.parent_id \notin {r.id : r \in rows} \cup {row.id}

\* for cat in categories: try INSERT OR REPLACE except Exception: print
RECURSIVE MigrateLoop(_, _)
MigrateLoop(categories, n) ==
    IF n = 0
    THEN {}
    ELSE LET rows == MigrateLoop(categories, n - 1)
             row  == MigratedRow(categories[n])
         IN  IF MigrateInsertRaises(rows, row)
             THEN rows
             ELSE {r \in rows : r.id # row.id} \cup {row}

\* migrate_categories(): the table is created when absent; an empty file returns
\* before any INSERT
MigrateCategories ==
    /\ request.op = "none"
    /\ now' = now + 1
    /\ request' = [op |-> "migrate"]
    /\ response' = [status |-> 0, error |-> ""]
    /\ before' = Stores
    /\ mirror_schema' = "relational"
    /\ categories_table' = MigrateLoop(category_json, Len(category_json))
    /\ UNCHANGED <<category_json, product_category_mapping, last_modified, connections>>

\* verify_migration(): SELECT COUNT(*) against len(json_categories)
VerifyMigration ==
    /\ request.op = "migrate"
    /\ Handled([op |-> "verify"],
               [status |-> 0, error |-> "",
                db_count |-> Cardinality(categories_table),
                json_count |-> Len(category_json),
                counts_match |-> Cardinality(categories_table) = Len(category_json)])
    /\ UNCHANGED <<category_json, categories_table, product_category_mapping,
                   last_modified>>

\* the records create_category can write for a name
CreatedRecords ==
    {CategoryRecord(name, 1, Null) : name \in CategoryIds}
        \cup {CategoryRecord(name, level, parent) :
                 name \in CategoryIds, level \in {2, 3},
                 parent \in CategoryIds \cup {Null}}

\* the hierarchy files of up to MaxRecords records with unique names: each is
\* the file left by create requests sent in that order to an empty file
MigrateFiles ==
    {f \in UNION {[1..n -> CreatedRecords] : n \in 0..MaxRecords} :
        \A i, j \in 1..Len(f) : f[i].category_name = f[j].category_name => i = j}

\* "absent": the script creates the table; "relational": database.py or an
\* earlier run created it, with the same columns
MigrateInit ==
    /\ category_json \in MigrateFiles
    /\ product_category_mapping = {}
    /\ last_modified = [p \in Products |-> 0]
    /\ mirror_schema \in {"absent", "relational"}
    /\ categories_table = {}
    /\ now = 0
    /\ request = [op |-> "none"]
    /\ response = [status |-> 0, error |-> ""]
    /\ before = Stores
    /\ connections = [c \in Connections |-> IdleConnection]

NextMigrate == MigrateCategories \/ VerifyMigration

SpecMigrate == MigrateInit /\ [][NextMigrate]_vars

(***************************************************************************)
(* A seventh specification: a delete request in flight together with       *)
(* assign, bulk assign or other delete requests. delete_category reads the *)
(* hierarchy file, runs its transaction on its own connection and rewrites *)
(* the file after the commit.                                              *)
(***************************************************************************)
\* the request reaches a handler that reads the hierarchy file first
AcceptAtRead(c, req) ==
    /\ connections[c].pc = "idle"
    /\ now' = now + 1
    /\ connections' = [connections EXCEPT ![c] =
           [OpenConnection(req) EXCEPT !.pc = "read"]]
    /\ UNCHANGED <<category_json, product_category_mapping, last_modified,
                   categories_table, mirror_schema, request, response, before>>

\* delete_category: json.load of the file, the 404 and the check for children
ReadFileDelete(c) ==
    LET conn == connections[c]
        category_name == conn.request.category_name
    IN  /\ conn.pc = "read"
        /\ conn.request.op = "delete"
        /\ connections' = [connections EXCEPT ![c] =
               IF FindCategory(category_json, category_name) = 0
               THEN [@ EXCEPT !.pc = "done",
                              !.response = [status |-> 404,
                                            error |-> "Category not found"]]
               ELSE IF ChildNames(category_json, category_name) # << >>
               THEN [@ EXCEPT !.pc = "done",
                              !.response =
                                  [status |-> 400,
                                   error |-> "Cannot delete category with child categories",
                                   child_categories |->
                                       ChildNames(category_json, category_name)]]
               ELSE [@ EXCEPT !.pc = "select", !.categories = category_json]]
        /\ UNCHANGED <<category_json, product_category_mapping, last_modified,
                       categories_table, mirror_schema, now, request, response, before>>

\* BEGIN TRANSACTION; SELECT COUNT(*) FROM product_category_mapping WHERE category_id = ?
CountDelete(c) ==
    LET conn == connections[c]
    IN  /\ conn.pc = "select"
        /\ conn.request.op = "delete"
        /\ ~Locked(c)
        /\ connections' = [connections EXCEPT ![c] =
               [@ EXCEPT !.pc = "write", !.holds = "shared"]]
        /\ UNCHANGED <<category_json, product_category_mapping, last_modified,
                       categories_table, mirror_schema, now, request, response, before>>

\* the two DELETEs and the UPDATE; DELETE FROM categories raises when there is no
\* such table: conn.rollback() and the error response
WriteDelete(c) ==
    LET conn == connections[c]
        category_name == conn.request.category_name
    IN  /\ conn.pc = "write"
        /\ conn.request.op = "delete"
        /\ ~Locked(c)
        /\ connections' = [connections EXCEPT ![c] =
               IF MirrorDeleteRaises(mirror_schema)
               THEN [@ EXCEPT !.pc = "done", !.holds = "none",
                              !.response = [status |-> 500,
                                            error |-> "OperationalError"]]
               ELSE [@ EXCEPT
                       !.pc = "commit", !.holds = "reserved",
                       !.work = DeleteTransaction(View(c), category_name, now),
                       !.stats =
                           [removed_from_products |->
                                Cardinality({m \in View(c).mapping :
                                                m[2] = category_name}),
                            removed_from_categories_table |->
                                Cardinality({r \in View(c).categories :
                                                r.id = category_name})]]]
        /\ UNCHANGED <<category_json, product_category_mapping, last_modified,
                       categories_table, mirror_schema, now, request, response, before>>

\* conn.commit() of delete_category
CommitDelete(c) ==
    LET conn == connections[c]
    IN  /\ conn.pc = "commit"
        /\ conn.request.op = "delete"
        /\ ~Locked(c)
        /\ Commit(conn.work)
        /\ connections' = [connections EXCEPT ![c] =
               [@ EXCEPT !.pc = "file", !.holds = "none"]]
        /\ UNCHANGED <<category_json, mirror_schema, now, request, response, before>>

\* updated_categories, built from the list read at the start, is written over the
\* file; then the response
WriteFileDelete(c) ==
    LET conn == connections[c]
        category_name == conn.request.category_name
    IN  /\ conn.pc = "file"
        /\ conn.request.op = "delete"
        /\ category_json' = WithoutCategory(conn.categories, category_name)
        /\ connections' = [connections EXCEPT ![c] =
               [@ EXCEPT !.pc = "done",
                         !.response =
                             [status |-> 200, error |-> "",
                              category |-> conn.categories[
                                  FindCategory(conn.categories, category_name)],
                              removed_from_products |->
                                  conn.stats.removed_from_products,
                              removed_from_categories_table |->
                                  conn.stats.removed_from_categories_table]]]
        /\ UNCHANGED <<product_category_mapping, last_modified, categories_table,
                       mirror_schema, now, request, response, before>>

\* the requests find the chain or the fork, the mirror table of the sync script
\* and a product that has the leaf C
DeleteRaceInit ==
    /\ category_json \in {Chain, Fork}
    /\ product_category_mapping \in {{}, {<<"P1", "C">>}}
    /\ last_modified = [p \in Products |-> 0]
    /\ mirror_schema = "sync"
    /\ categories_table = MirrorRows(mirror_schema, category_json)
    /\ now = 0
    /\ request = [op |-> "none"]
    /\ response = [status |-> 0, error |-> ""]
    /\ before = Stores
    /\ connections = [c \in Connections |-> IdleConnection]

AcceptDelete ==
    /\ SomeIdle
    /\ \E c \in Connections, category_name \in CategoryIds :
          AcceptAtRead(c, [op |-> "delete", category_name |-> category_name])

\* in this specification the first connection is the delete request's and the
\* second one the assigning request's
RaceDelete ==
    /\ connections[1].pc = "idle"
    /\ \E category_name \in CategoryIds :
          AcceptAtRead(1, [op |-> "delete", category_name |-> category_name])

RaceAssign ==
    /\ connections[2].pc = "idle"
    /\ \E app \in Apps, p \in Products, cs \in (SUBSET CategoryIds) \ {{}} :
          Accept(2, [op |-> "assign", app |-> app, product_id |-> p,
                     category_ids |-> cs])

RaceBulkAssign ==
    /\ connections[2].pc = "idle"
    /\ \E ps \in ProductBatches, cs \in (SUBSET CategoryIds) \ {{}} :
          Accept(2, [op |-> "bulk_assign", product_ids |-> ps, category_ids |-> cs])

ReadFileDeleteStep  == \E c \in Connections : ReadFileDelete(c)
CountDeleteStep     == \E c \in Connections : CountDelete(c)
WriteDeleteStep     == \E c \in Connections : WriteDelete(c)
CommitDeleteStep    == \E c \in Connections : CommitDelete(c)
WriteFileDeleteStep == \E c \in Connections : WriteFileDelete(c)

NextDeleteRace ==
    \/ RaceDelete
    \/ RaceAssign
    \/ RaceBulkAssign
    \/ ReadFileDeleteStep
    \/ CountDeleteStep
    \/ WriteDeleteStep
    \/ CommitDeleteStep
    \/ WriteFileDeleteStep
    \/ SelectStep
    \/ WriteAssignStep
    \/ WriteBulkStep
    \/ CommitStep
    \/ RespondStep
    \/ LockedStep

SpecDeleteRace == DeleteRaceInit /\ [][NextDeleteRace]_vars

(***************************************************************************)
(* An eighth specification: create and delete requests in flight together. *)
(* Each reads data/category.json into a list, changes its list and writes  *)
(* the list over the file; no lock is taken on the file.                   *)
(***************************************************************************)
\* create_category as it runs on the list it has read, with nothing failing
CreateOn(req, categories) ==
    CreateHandler(req.name, req.level, req.parent_id, 0, categories, {}, "sync")

\* create_category: the checks of the body, json.load of the file and the check
\* for a duplicate name
ReadFileCreate(c) ==
    LET conn == connections[c]
        out  == CreateOn(conn.request, category_json)
    IN  /\ conn.pc = "read"
        /\ conn.request.op = "create"
        /\ connections' = [connections EXCEPT ![c] =
               IF out.response.status # 200
               THEN [@ EXCEPT !.pc = "done", !.response = out.response]
               ELSE [@ EXCEPT !.pc = "file", !.categories = category_json]]
        /\ UNCHANGED <<category_json, product_category_mapping, last_modified,
                       categories_table, mirror_schema, now, request, response, before>>

\* categories.append(new_category); json.dump(categories, f)
WriteFileCreate(c) ==
    LET conn == connections[c]
    IN  /\ conn.pc = "file"
        /\ conn.request.op = "create"
        /\ category_json' = CreateOn(conn.request, conn.categories).stores.category_json
        /\ connections' = [connections EXCEPT ![c] = [@ EXCEPT !.pc = "mirror"]]
        /\ UNCHANGED <<product_category_mapping, last_modified, categories_table,
                       mirror_schema, now, request, response, before>>

\* INSERT OR REPLACE INTO categories and conn.commit() on a connection of its own,
\* inside try: a missing column or a lock another connection holds is printed as a
\* warning; then the response
SyncCreate(c) ==
    LET conn == connections[c]
        new_category == CreateOn(conn.request, conn.categories).response.category
    IN  /\ conn.pc = "mirror"
        /\ conn.request.op = "create"
        /\ categories_table' =
               IF MirrorInsertRaises(mirror_schema)
                  \/ connections[Other(c)].holds # "none"
               THEN categories_table
               ELSE {r \in categories_table : r.id # new_category.category_name}
                        \cup {SyncRow(new_category)}
        /\ connections' = [connections EXCEPT ![c] =
               [@ EXCEPT !.pc = "done",
                         !.response = [status |-> 200, error |-> "",
                                       category |-> new_category]]]
        /\ UNCHANGED <<category_json, product_category_mapping, last_modified,
                       mirror_schema, now, request, response, before>>

\* the requests find the stub A > B or the fork, and the mirror table of the sync
\* script
FileRaceInit ==
    /\ category_json \in {Stub, Fork}
    /\ product_category_mapping = {<<"P1", "B">>}
    /\ last_modified = [p \in Products |-> 0]
    /\ mirror_schema = "sync"
    /\ categories_table = MirrorRows(mirror_schema, category_json)
    /\ now = 0
    /\ request = [op |-> "none"]
    /\ response = [status |-> 0, error |-> ""]
    /\ before = Stores
    /\ connections = [c \in Connections |-> IdleConnection]

AcceptCreate ==
    /\ SomeIdle
    /\ \E c \in Connections, name \in TreeNames, level \in {1, 2, 3},
          parent_id \in {Null, "A", "B"} :
          AcceptAtRead(c, [op |-> "create", name |-> name, level |-> level,
                           parent_id |-> parent_id])

ReadFileCreateStep  == \E c \in Connections : ReadFileCreate(c)
WriteFileCreateStep == \E c \in Connections : WriteFileCreate(c)
SyncCreateStep      == \E c \in Connections : SyncCreate(c)

NextFileRace ==
    \/ AcceptCreate
    \/ AcceptDelete
    \/ ReadFileCreateStep
    \/ WriteFileCreateStep
    \/ SyncCreateStep
    \/ ReadFileDeleteStep
    \/ CountDeleteStep
    \/ WriteDeleteStep
    \/ CommitDeleteStep
    \/ WriteFileDeleteStep
    \/ LockedStep

SpecFileRace == FileRaceInit /\ [][NextFileRace]_vars

(***************************************************************************)
(* Vocabulary of the properties.                                           *)
(***************************************************************************)
\* the Tree Store's parent of a category: Null for a root or an unknown name
ParentOf(categories, name) ==
    IF FindCategory(categories, name) = 0
    THEN Null
    ELSE categories[FindCategory(categories, name)].connected_to

\* every name that one or more parent steps reach from the names in `names`
RECURSIVE ReachedByParents(_, _)
ReachedByParents(categories, names) ==
    LET more == names \cup ({ParentOf(categories, c) : c \in names} \ {Null})
    IN  IF more = names THEN names ELSE ReachedByParents(categories, more)

TreeAncestors(categories, name) ==
    IF ParentOf(categories, name) = Null
    THEN {}
    ELSE ReachedByParents(categories, {ParentOf(categories, name)})

\* the ids of a product_ids list
Listed(product_ids) == {product_ids[i] : i \in 1..Len(product_ids)}

\* the last request was handled to its end with a success response
Succeeded(op) == request.op = op /\ response.status = 200

\* the category ids and the product ids the last (assigning) request named
RequestedCategories ==
    IF request.op = "bulk_assign_category" THEN {request.category_id}
    ELSE request.category_ids

RequestedProducts ==
    IF request.op = "assign" THEN {request.product_id} ELSE Listed(request.product_ids)

\* the Assignment Store: the rows and the last_modified values
AssignmentStoreAsBefore ==
    /\ product_category_mapping = before.mapping
    /\ last_modified = before.last_modified

(***************************************************************************)
(* C1: after a successful assign(P, S) with S not empty, P a product of    *)
(* the catalog (under app.py: any product id), categoriesOf(P) contains    *)
(* every id of S and every ancestor, per the hierarchy file the call read, *)
(* of every id of S.                                                       *)
(***************************************************************************)
AssignCoversClosure ==
    (/\ Succeeded("assign")
     /\ request.app = "flask" \/ request.product_id \in Products)
    => \A c \in request.category_ids :
          /\ <<request.product_id, c>> \in product_category_mapping
          /\ \A a \in TreeAncestors(before.category_json, c) :
                <<request.product_id, a>> \in product_category_mapping

\* assign(P1, [C]) on the chain A > B > C for a product without categories
AssignCoversClosureWitness ==
    /\ Succeeded("assign")
    /\ request.product_id = "P1"
    /\ request.category_ids = {"C"}
    /\ before.category_json = Chain
    /\ CategoriesOf(before.mapping, "P1") = {}
    /\ CategoriesOf(product_category_mapping, "P1") = {"A", "B", "C"}
    /\ response.added_categories = {"A", "B", "C"}

(***************************************************************************)
(* C2, as claimed: after a successful assign or bulk assign, the           *)
(* categories of every product the request names are ancestor-closed:      *)
(* every ancestor of every category the product has is there too.          *)
(***************************************************************************)
AssignLeavesAncestorClosed ==
    (\/ Succeeded("assign") /\ (request.app = "flask" \/ request.product_id \in Products)
     \/ Succeeded("bulk_assign")
     \/ Succeeded("bulk_assign_category"))
    => \A p \in RequestedProducts :
          \A c \in CategoriesOf(product_category_mapping, p) :
             \A a \in TreeAncestors(category_json, c) :
                <<p, a>> \in product_category_mapping

(***************************************************************************)
(* C2, amended: after a successful assign or bulk assign, every product    *)
(* the request names has every requested category and every ancestor of a  *)
(* requested category; the categories the product had before the request   *)
(* are not closed again.                                                   *)
(***************************************************************************)
AssignClosesRequested ==
    (\/ Succeeded("assign") /\ (request.app = "flask" \/ request.product_id \in Products)
     \/ Succeeded("bulk_assign")
     \/ Succeeded("bulk_assign_category"))
    => \A p \in RequestedProducts :
          \A c \in RequestedCategories :
             /\ <<p, c>> \in product_category_mapping
             /\ \A a \in TreeAncestors(category_json, c) :
                   <<p, a>> \in product_category_mapping

\* bulkAssign([P1, P2], [B, C]) on the chain A > B > C: both products get A, B, C
\* although P2 keeps nothing from before
AssignClosesRequestedWitness ==
    /\ Succeeded("bulk_assign")
    /\ request.product_ids = <<"P1", "P2">>
    /\ request.category_ids = {"B", "C"}
    /\ category_json = Chain
    /\ CategoriesOf(before.mapping, "P1") = {"C"}
    /\ CategoriesOf(before.mapping, "P2") = {}
    /\ CategoriesOf(product_category_mapping, "P1") = {"A", "B", "C"}
    /\ CategoriesOf(product_category_mapping, "P2") = {"A", "B", "C"}

(***************************************************************************)
(* C3: assign is idempotent: when assign(P, S) has succeeded and is called *)
(* again at once, the second call leaves categoriesOf(P) as the first left *)
(* it and reports an empty added list.                                     *)
(***************************************************************************)
\* the state follows the second of the two calls
SecondAssign == now = MaxTime + 1 /\ request.op = "assign"

AssignIdempotent ==
    SecondAssign
    => /\ response.status = 200
       /\ response.added_categories = {}
       /\ product_category_mapping = before.mapping
       /\ request.app = "flask"
          => response.categories = CategoriesOf(before.mapping, request.product_id)

\* the second assign(P1, [C]) on the chain, P1 holding A, B, C after the first
AssignIdempotentWitness ==
    /\ SecondAssign
    /\ request.product_id = "P1"
    /\ request.category_ids = {"C"}
    /\ request.app = "flask"
    /\ category_json = Chain
    /\ response.categories = {"A", "B", "C"}

(***************************************************************************)
(* C4, as claimed: a successful delete(id) of a childless category sets    *)
(* last_modified, to the time of the request, on every product that had    *)
(* the category just before.                                               *)
(***************************************************************************)
DeleteTouchesAssignedProducts ==
    Succeeded("delete")
    => \A p \in Products :
          <<p, request.category_name>> \in before.mapping => last_modified[p] = now

(***************************************************************************)
(* C5: a successful delete(id) of a childless category removes every       *)
(* assignment row of id and no row of another category, so that no product *)
(* has id afterwards.                                                      *)
(***************************************************************************)
DeleteRemovesRowsOfCategoryOnly ==
    Succeeded("delete")
    => /\ product_category_mapping =
              {m \in before.mapping : m[2] # request.category_name}
       /\ \A p \in ProductIds :
              request.category_name \notin CategoriesOf(product_category_mapping, p)

\* delete(C) on the chain while P1 has {A, B, C} and P2 has {C}
DeleteRemovesRowsOfCategoryOnlyWitness ==
    /\ Succeeded("delete")
    /\ request.category_name = "C"
    /\ before.category_json = Chain
    /\ CategoriesOf(before.mapping, "P1") = {"A", "B", "C"}
    /\ CategoriesOf(before.mapping, "P2") = {"C"}
    /\ response.removed_from_products = 2
    /\ CategoriesOf(product_category_mapping, "P1") = {"A", "B"}

(***************************************************************************)
(* C6: delete(id) of a category of the hierarchy file that is the parent   *)
(* of at least one record is refused (400, "Cannot delete category with    *)
(* child categories") with exactly the names of its children, and the      *)
(* hierarchy file, the assignment rows, the mirror table and every         *)
(* last_modified are as the request found them.                            *)
(***************************************************************************)
\* the names of the records whose parent is `name`
ChildrenOf(categories, name) ==
    {categories[i].category_name :
        i \in {j \in 1..Len(categories) : categories[j].connected_to = name}}

DeleteWithChildrenRefused ==
    (/\ request.op = "delete"
     /\ request.category_name \in CategoryNames(before.category_json)
     /\ ChildrenOf(before.category_json, request.category_name) # {})
    => /\ response.status = 400
       /\ response.error = "Cannot delete category with child categories"
       /\ Listed(response.child_categories) =
              ChildrenOf(before.category_json, request.category_name)
       /\ Len(response.child_categories) =
              Cardinality(ChildrenOf(before.category_json, request.category_name))
       /\ Stores = before

\* delete(A) on the fork A > {B, C} while products have A: the two children are named
DeleteWithChildrenRefusedWitness ==
    /\ request.op = "delete"
    /\ request.category_name = "A"
    /\ before.category_json = Fork
    /\ response.status = 400
    /\ response.child_categories = <<"B", "C">>
    /\ <<"P1", "A">> \in product_category_mapping
    /\ mirror_schema = "sync"

(***************************************************************************)
(* C7, as claimed: a bulk assign that names a category id with no record   *)
(* in the hierarchy file fails for the whole batch and writes nothing: no  *)
(* row is inserted and no product is touched.                              *)
(***************************************************************************)
BulkAssignUnknownCategoryFails ==
    (/\ request.op \in {"bulk_assign", "bulk_assign_category"}
     /\ request.product_ids # << >>
     /\ \E c \in RequestedCategories : c \notin CategoryNames(before.category_json))
    => /\ response.status # 200
       /\ AssignmentStoreAsBefore

(***************************************************************************)
(* C8: bulk operations are all-or-nothing: when a statement raises inside  *)
(* the loop over the products of a bulk assign or bulk remove, the request *)
(* ends in the error response, without statistics, and the assignment rows *)
(* and every last_modified are as the request found them.                  *)
(***************************************************************************)
\* a statement of pass request.fail of the loop raised
RaisedInLoop ==
    /\ request.op \in {"bulk_assign", "bulk_assign_category", "bulk_remove"}
    /\ request.fail # 0
    /\ response.error = "OperationalError"

BulkFailureWritesNothing ==
    (/\ request.op \in {"bulk_assign", "bulk_assign_category", "bulk_remove"}
     /\ request.fail # 0
     /\ response.status # 0)
    => /\ response.status = 500
       /\ "stats" \notin DOMAIN response
       /\ AssignmentStoreAsBefore

\* bulkAssign([P1, P2], [C]) raises in its second pass, after the first pass has
\* inserted rows for P1 and touched it
BulkFailureWritesNothingWitness ==
    /\ RaisedInLoop
    /\ request.op = "bulk_assign"
    /\ request.product_ids = <<"P1", "P2">>
    /\ request.category_ids = {"C"}
    /\ request.fail = 2
    /\ category_json = Chain
    /\ CategoriesOf(product_category_mapping, "P1") = {}

\* bulkRemove([P1, P2], [A]) raises in its second pass, after the first pass has
\* deleted the row of P1 and touched it
BulkRemoveFailureWitness ==
    /\ RaisedInLoop
    /\ request.op = "bulk_remove"
    /\ request.product_ids = <<"P1", "P2">>
    /\ request.category_ids = {"A"}
    /\ request.fail = 2
    /\ <<"P1", "A">> \in product_category_mapping

(***************************************************************************)
(* C9: a successful removeCategory(P, C) removes at most the pair (P, C):  *)
(* every other pair of P, ancestors and descendants of C included, and     *)
(* every pair of every other product stays.                                *)
(***************************************************************************)
RemoveTakesOnePair ==
    Succeeded("remove")
    => product_category_mapping =
           before.mapping \ {<<request.product_id, request.category_id>>}

\* on the chain A > B > C, removeCategory(P1, C) leaves P1 with {A, B}
RemoveTakesOnePairWitness ==
    /\ Succeeded("remove")
    /\ request.product_id = "P1"
    /\ request.category_id = "C"
    /\ category_json = Chain
    /\ CategoriesOf(before.mapping, "P1") = {"A", "B", "C"}
    /\ CategoriesOf(product_category_mapping, "P1") = {"A", "B"}

(***************************************************************************)
(* C10: a successful bulkRemove(product_ids, category_ids) reports what it *)
(* did: categories_removed is the number of rows deleted, products_updated *)
(* the number of products that lost a row, last_modified is set for these  *)
(* products and no other, and the rows deleted are the pairs (p, c) of the *)
(* table with p in product_ids and c in category_ids.                      *)
(***************************************************************************)
\* the rows the last request deleted
RowsDeleted == before.mapping \ product_category_mapping

BulkRemoveReportsWhatItDid ==
    Succeeded("bulk_remove")
    => /\ product_category_mapping \subseteq before.mapping
       /\ RowsDeleted = {m \in before.mapping :
                            /\ m[1] \in Listed(request.product_ids)
                            /\ m[2] \in request.category_ids}
       /\ response.stats.categories_removed = Cardinality(RowsDeleted)
       /\ response.stats.products_updated = Cardinality({m[1] : m \in RowsDeleted})
       /\ \A p \in Products :
             IF p \in {m[1] : m \in RowsDeleted}
             THEN last_modified[p] = now
             ELSE last_modified[p] = before.last_modified[p]

\* bulkRemove([P1, P2], [A]) while P1 has {A, B} and P2 has {B}: one row goes,
\* B stays, P2 is listed and not touched
BulkRemoveReportsWhatItDidWitness ==
    /\ Succeeded("bulk_remove")
    /\ request.product_ids = <<"P1", "P2">>
    /\ request.category_ids = {"A"}
    /\ CategoriesOf(before.mapping, "P1") = {"A", "B"}
    /\ CategoriesOf(before.mapping, "P2") = {"B"}
    /\ response.stats.categories_removed = 1
    /\ response.stats.products_updated = 1
    /\ CategoriesOf(product_category_mapping, "P1") = {"B"}
    /\ last_modified["P2"] = before.last_modified["P2"]

(***************************************************************************)
(* C11: a successful bulk assign reports in categories_added the number of *)
(* rows the request inserted, the size of the assignment table after minus *)
(* before, whatever the product list (repeated ids, products with rows);   *)
(* for products without rows and one requested category with two ancestors *)
(* that is 3 rows per product.                                             *)
(***************************************************************************)
\* the rows the last request inserted
RowsInserted == product_category_mapping \ before.mapping

BulkAssignCountsInsertedRows ==
    (Succeeded("bulk_assign") \/ Succeeded("bulk_assign_category"))
    => /\ before.mapping \subseteq product_category_mapping
       /\ response.stats.categories_added = Cardinality(RowsInserted)
       /\ response.stats.categories_added =
              Cardinality(product_category_mapping) - Cardinality(before.mapping)
       /\ (/\ \A p \in RequestedProducts : CategoriesOf(before.mapping, p) = {}
           /\ \E c \in CategoryIds :
                 /\ RequestedCategories = {c}
                 /\ Cardinality(TreeAncestors(before.category_json, c)) = 2)
          => response.stats.categories_added = 3 * Cardinality(RequestedProducts)

\* bulkAssign([P1, P2], [C]) on the chain A > B > C, no product having a row:
\* 3 rows for each product, 2 of them for ancestors
BulkAssignCountsInsertedRowsWitness ==
    /\ Succeeded("bulk_assign")
    /\ request.product_ids = <<"P1", "P2">>
    /\ request.category_ids = {"C"}
    /\ before.category_json = Chain
    /\ before.mapping = {}
    /\ response.stats.categories_added = 6
    /\ response.stats.parent_categories_added = 4
    /\ Cardinality(product_category_mapping) = 6

\* bulkAssign([P1, P1], [C]) on the chain while P1 has A: the repeated id adds
\* nothing the second time
BulkAssignRepeatedProductWitness ==
    /\ Succeeded("bulk_assign")
    /\ request.product_ids = <<"P1", "P1">>
    /\ request.category_ids = {"C"}
    /\ before.category_json = Chain
    /\ CategoriesOf(before.mapping, "P1") = {"A"}
    /\ response.stats.categories_added = 2
    /\ response.stats.products_updated = 2

(***************************************************************************)
(* C12, as claimed: a successful bulk assign reports in                    *)
(* parent_categories_added the number of inserted rows whose category is   *)
(* ancestor-only: an ancestor of a requested category that is not itself   *)
(* requested. A row of a category that was requested and is also an        *)
(* ancestor of another requested category is not counted.                  *)
(***************************************************************************)
\* the ancestors, per the hierarchy file the request read, of the requested categories
RequestedAncestors ==
    UNION {TreeAncestors(before.category_json, c) : c \in RequestedCategories}

BulkAssignCountsAncestorOnlyRows ==
    (Succeeded("bulk_assign") \/ Succeeded("bulk_assign_category"))
    => response.stats.parent_categories_added =
           Cardinality({m \in RowsInserted :
                           m[2] \in RequestedAncestors \ RequestedCategories})

(***************************************************************************)
(* C13, as claimed: a successful assign(P, S) reports in                   *)
(* parent_categories_added the number of ids of its added list that are    *)
(* ancestors of a requested category and not requested themselves, which   *)
(* is never more than the length of the added list, and it returns the     *)
(* categories P has after the call.                                        *)
(***************************************************************************)
AssignCountsAncestorOnlyAdditions ==
    Succeeded("assign")
    => /\ response.parent_categories_added =
              Cardinality(response.added_categories
                              \cap (RequestedAncestors \ RequestedCategories))
       /\ response.parent_categories_added <= Cardinality(response.added_categories)
       /\ "categories" \in DOMAIN response
       /\ response.categories = CategoriesOf(product_category_mapping, request.product_id)

(***************************************************************************)
(* C14, as claimed: assign with an empty (or missing) category_ids list,   *)
(* and a bulk request with an empty product or category list, end in the   *)
(* validation error, a response of the 400 class and not a 500, and change *)
(* neither the assignment rows nor any last_modified.                      *)
(***************************************************************************)
\* the last request named no category, or (a bulk request) no product
NothingProvided ==
    \/ request.op = "assign" /\ request.category_ids = {}
    \/ request.op \in {"bulk_assign", "bulk_remove"}
          /\ (request.product_ids = << >> \/ request.category_ids = {})
    \/ request.op = "bulk_assign_category" /\ request.product_ids = << >>

EmptyListIsValidationError ==
    NothingProvided
    => /\ response.status \in 400..499
       /\ AssignmentStoreAsBefore

(***************************************************************************)
(* C15, as claimed: create(name, level, parent_id) fails (InvalidHierarchy, *)
(* an error response) and leaves the hierarchy file unchanged whenever     *)
(* level > 1 and parent_id is null or absent, or level = 1 and parent_id   *)
(* is not null, or level is outside {1, 2, 3}: no category is stored in    *)
(* any of these cases.                                                     *)
(***************************************************************************)
\* the level and the parent_id of the last (create) request do not go together
InvalidHierarchy ==
    \/ request.level \notin {1, 2, 3}
    \/ request.level > 1 /\ request.parent_id \in {Missing, Null}
    \/ request.level = 1 /\ request.parent_id \notin {Missing, Null}

CreateRejectsInvalidHierarchy ==
    (request.op = "create" /\ InvalidHierarchy)
    => /\ response.status # 200
       /\ category_json = before.category_json

(***************************************************************************)
(* C16: category ids are unique in the hierarchy file after any sequence   *)
(* of create and delete requests handled one at a time: a create with a    *)
(* name the file already has (compared case-sensitively) fails and leaves  *)
(* the file unchanged, and, its level and parent_id having passed the      *)
(* checks that come first, answers "Category name already exists" with the *)
(* existing record; a name that differs in case only is another id.        *)
(***************************************************************************)
\* the last (create) request passed the checks made before the file is read
PassedFieldChecks ==
    /\ request.level \in {1, 2, 3}
    /\ request.level > 1 => request.parent_id # Missing

CategoryIdsUnique ==
    /\ Cardinality(CategoryNames(category_json)) = Len(category_json)
    /\ (request.op = "create" /\ request.name \in CategoryNames(before.category_json))
       => /\ response.status = 400
          /\ category_json = before.category_json
          /\ PassedFieldChecks
             => /\ response.error = "Category name already exists"
                /\ response.existing_category.category_name = request.name
                /\ \E i \in 1..Len(before.category_json) :
                      before.category_json[i] = response.existing_category
    /\ (/\ request.op = "create"
        /\ request.name \notin CategoryNames(before.category_json)
        /\ PassedFieldChecks
        /\ request.fail = 0)
       => /\ response.status = 200
          /\ CategoryNames(category_json) =
                 CategoryNames(before.category_json) \cup {request.name}

\* after create(a) has succeeded beside A, a second create(a) is refused with
\* the record of a, and the file keeps its three distinct names
CategoryIdsUniqueWitness ==
    /\ request.op = "create"
    /\ request.name = "a"
    /\ PassedFieldChecks
    /\ response.status = 400
    /\ response.error = "Category name already exists"
    /\ response.existing_category.category_name = "a"
    /\ CategoryNames(category_json) = {"A", "B", "a"}

(***************************************************************************)
(* C17, as claimed: create and delete keep the hierarchy well-formed:      *)
(* starting from a well-formed file, after every request each level 1      *)
(* record has a null parent and each level 2 or 3 record has a parent that *)
(* names a record of the file whose level is exactly one less.             *)
(***************************************************************************)
\* the level a record's category_level string names (0 when it names none)
LevelOf(cat) ==
    CASE cat.category_level = "Level 1 Category" -> 1
      [] cat.category_level = "Level 2 Category" -> 2
      [] cat.category_level = "Level 3 Category" -> 3
      [] OTHER -> 0

WellFormedTree(categories) ==
    \A i \in 1..Len(categories) :
       LET cat == categories[i]
       IN  IF LevelOf(cat) = 1
           THEN cat.connected_to = Null
           ELSE /\ LevelOf(cat) \in {2, 3}
                /\ cat.connected_to # Null
                /\ \E j \in 1..Len(categories) :
                      /\ categories[j].category_name = cat.connected_to
                      /\ LevelOf(categories[j]) = LevelOf(cat) - 1

TreeStaysWellFormed ==
    (request.op \in {"create", "delete"} /\ ~Dies(request.fail)
        /\ WellFormedTree(before.category_json))
    => WellFormedTree(category_json)

(***************************************************************************)
(* C18, as claimed: when delete(id) fails with a storage error at any      *)
(* step, the rewrite of the hierarchy file included, the request ends in   *)
(* an error and the assignment rows and every last_modified are as the     *)
(* request found them: the removal of the rows is rolled back.             *)
(***************************************************************************)
DeleteFailureRollsBack ==
    (request.op = "delete" /\ request.fail \in {1, 2}
        /\ request.category_name \in CategoryNames(before.category_json)
        /\ ChildrenOf(before.category_json, request.category_name) = {})
    => /\ response.status = 500
       /\ AssignmentStoreAsBefore

(***************************************************************************)
(* C20: a failure to write the new category into the mirror table          *)
(* categories does not fail create: the request still answers success with *)
(* the new record, and the record is the last of the hierarchy file.       *)
(***************************************************************************)
\* the last request is a create that reached the mirror INSERT, and it raised
MirrorInsertFailed ==
    /\ request.op = "create"
    /\ PassedFieldChecks
    /\ request.name \notin CategoryNames(before.category_json)
    /\ request.fail = 0
    /\ MirrorInsertRaises(mirror_schema)

CreateSurvivesMirrorFailure ==
    MirrorInsertFailed
    => /\ response.status = 200
       /\ response.category.category_name = request.name
       /\ category_json = Append(before.category_json, response.category)
       /\ categories_table = before.categories

\* create(C, 3, B) on A > B without a mirror table: C is in the file
CreateSurvivesMirrorFailureWitness ==
    /\ MirrorInsertFailed
    /\ request.name = "C"
    /\ request.level = 3
    /\ request.parent_id = "B"
    /\ before.category_json = Stub
    /\ mirror_schema = "absent"
    /\ response.status = 200
    /\ category_json = Append(Stub, CategoryRecord("C", 3, "B"))
    /\ categories_table = {}

(***************************************************************************)
(* C19: two assign or bulk assign requests in flight at once, on products  *)
(* that may overlap, lose no update under any interleaving of their        *)
(* statements: once both have answered, the assignment table has, for      *)
(* every request that reported success, every requested category and every *)
(* ancestor of one for every product of the request; an INSERT that raises *)
(* on a pair the other request has written costs the request no other      *)
(* pair.                                                                   *)
(***************************************************************************)
\* the pairs a request is to leave in the table
ClosurePairs(req) ==
    LET products == IF req.op = "assign" THEN {req.product_id}
                    ELSE Listed(req.product_ids)
        closure  == req.category_ids
                        \cup UNION {TreeAncestors(category_json, k) : k \in req.category_ids}
    IN  products \X closure

BothAnswered == \A c \in Connections : connections[c].pc = "done"

NoLostUpdate ==
    BothAnswered
    => \A c \in Connections :
          connections[c].response.status = 200
          => ClosurePairs(connections[c].request) \subseteq product_category_mapping

\* assign(P1, [B]) and assign(P1, [C]) on the fork A > {B, C}: both read P1's rows
\* before either writes, the second INSERT of (P1, A) raises IntegrityError, and
\* both report success with P1 holding A, B and C
NoLostUpdateWitness ==
    /\ BothAnswered
    /\ category_json = Fork
    /\ \A c \in Connections :
          /\ connections[c].request.op = "assign"
          /\ connections[c].request.product_id = "P1"
          /\ connections[c].response.status = 200
          /\ connections[c].current_categories = {}
    /\ connections[1].request.category_ids = {"B"}
    /\ connections[2].request.category_ids = {"C"}
    /\ connections[2].skipped = {"A"}
    /\ connections[2].added_categories = {"C"}
    /\ CategoriesOf(product_category_mapping, "P1") = {"A", "B", "C"}

\* bulkAssign([P1, P2], [C]) and bulkAssign([P2, P1], [B]) on the chain: the one
\* that writes second is refused its lock, reports the error and writes nothing
ConcurrentBulkWitness ==
    /\ BothAnswered
    /\ category_json = Chain
    /\ \A c \in Connections : connections[c].request.op = "bulk_assign"
    /\ connections[1].request.product_ids = <<"P1", "P2">>
    /\ connections[2].request.product_ids = <<"P2", "P1">>
    /\ connections[1].request.category_ids = {"C"}
    /\ connections[2].request.category_ids = {"B"}
    /\ connections[1].response.status = 200
    /\ connections[2].response.error = "database is locked"
    /\ connections[2].current_categories = {}

(***************************************************************************)
(* C21: every row of product_category_mapping names a product of the       *)
(* product_categories table; an assign or bulk assign for a product id     *)
(* that is not in the catalog creates no row.                              *)
(* The mapping table declares FOREIGN KEY (product_id), but the            *)
(* connection of app.py never sets PRAGMA foreign_keys, so its INSERT      *)
(* stores a row for any product id.                                        *)
(***************************************************************************)
AssignmentRowsNameProducts ==
    /\ \A m \in product_category_mapping : m[1] \in Products
    /\ request.op \in {"assign", "bulk_assign", "bulk_assign_category"}
           => \A m \in RowsInserted : m[1] \in Products

(***************************************************************************)
(* C22: the walk of the parents done by assign and bulk assign ends for    *)
(* every content of the hierarchy file, a cyclic connected_to included:    *)
(* the request is answered, and a chain that does not end is answered      *)
(* with an error.                                                          *)
(* The loop   while current_category and current_category['connected_to']  *)
(* has no bound and no set of visited names: on a record that is its own   *)
(* ancestor it never ends and the request gets no response.                *)
(***************************************************************************)
WalkEnds ==
    request.op \in {"assign", "bulk_assign", "bulk_assign_category"}
        => /\ response.status # 0
           /\ ~WalksHalt(before.category_json, RequestedCategories)
                  => response.status >= 400

(***************************************************************************)
(* C23: delete removes the rows of the category in a committed             *)
(* transaction before it rewrites the hierarchy file. So after a delete    *)
(* request, however it ended (answer 200, an error of the commit or of     *)
(* the file, the death of the process during the rewrite), when the        *)
(* category is no longer in the file no row of product_category_mapping    *)
(* names it, and a delete answered 200 has done both.                      *)
(***************************************************************************)
DeleteRowsBeforeFile ==
    (request.op = "delete"
        /\ request.category_name \in CategoryNames(before.category_json))
    => /\ request.category_name \notin CategoryNames(category_json)
              => \A m \in product_category_mapping : m[2] # request.category_name
       /\ response.status = 200
              => request.category_name \notin CategoryNames(category_json)

\* the process died while it rewrote the file: the category is gone from the file
\* and the rows it had are gone from the table
DeleteRowsBeforeFileWitness ==
    /\ request.op = "delete"
    /\ response = NoResponse
    /\ request.category_name \in CategoryNames(before.category_json)
    /\ request.category_name \notin CategoryNames(category_json)
    /\ \E m \in before.mapping : m[2] = request.category_name
    /\ \A m \in product_category_mapping : m[2] # request.category_name

(***************************************************************************)
(* C24: when the process dies at any point of a create or a delete that    *)
(* rewrites the hierarchy file, the file holds either the complete old     *)
(* list or the complete new list, never an empty or a cut one.             *)
(* Both handlers open data/category.json itself with mode 'w', which       *)
(* empties it, and then let json.dump write into it: there is no           *)
(* temporary file and no rename.                                           *)
(***************************************************************************)
FileRewriteIsAtomic ==
    /\ request.op = "create"
           => \/ category_json = before.category_json
              \/ /\ Len(category_json) = Len(before.category_json) + 1
                 /\ SubSeq(category_json, 1, Len(before.category_json))
                        = before.category_json
                 /\ category_json[Len(category_json)].category_name = request.name
    /\ request.op = "delete"
           => \/ category_json = before.category_json
              \/ category_json
                     = WithoutCategory(before.category_json, request.category_name)

(***************************************************************************)
(* C25, as claimed: a bulk assign has the effect of one assign per listed  *)
(* product. For every hierarchy, every table and every request of either   *)
(* bulk assign handler that meets no storage failure, the rows and the     *)
(* last_modified values it leaves are those left by assign_categories      *)
(* called for each product of product_ids, in the order of the list or in  *)
(* the opposite order.                                                     *)
(***************************************************************************)
Reverse(product_ids) ==
    [i \in 1..Len(product_ids) |-> product_ids[Len(product_ids) + 1 - i]]

\* assign_categories of app.py for product_ids[1..n], one request after the other
RECURSIVE AssignEach(_, _, _, _, _, _)
AssignEach(db, product_ids, n, category_ids, categories, time) ==
    IF n = 0
    THEN db
    ELSE AssignHandler("flask", product_ids[n], category_ids, 0, categories,
                       AssignEach(db, product_ids, n - 1, category_ids, categories,
                                  time),
                       time).db

AsSingleAssigns ==
    \A product_ids \in {request.product_ids, Reverse(request.product_ids)} :
        LET db == AssignEach([mapping |-> before.mapping,
                              last_modified |-> before.last_modified,
                              categories |-> before.categories],
                             product_ids, Len(product_ids), RequestedCategories,
                             before.category_json, now)
        IN  /\ product_category_mapping = db.mapping
            /\ last_modified = db.last_modified

BulkAssignIsSingleAssigns ==
    (request.op \in {"bulk_assign", "bulk_assign_category"} /\ request.fail = 0)
    => AsSingleAssigns

(***************************************************************************)
(* Where the two differ: bulk_assign_multiple_categories has the effect   *)
(* of one assign per listed product for every request that meets no        *)
(* storage failure, a request with unknown category ids included;          *)
(* bulk_assign_category has it when its category has a record, and for a   *)
(* category without a record it answers 500 and writes nothing, where the  *)
(* single assigns store the row.                                           *)
(***************************************************************************)
BulkAssignIsSingleAssignsOfKnown ==
    /\ (request.op = "bulk_assign" /\ request.fail = 0) => AsSingleAssigns
    /\ (request.op = "bulk_assign_category" /\ request.fail = 0)
       => IF request.category_id \in CategoryNames(before.category_json)
             \/ request.product_ids = << >>
          THEN AsSingleAssigns
          ELSE /\ response.status = 500
               /\ AssignmentStoreAsBefore
               /\ ~AsSingleAssigns

\* two products, one of which had one of the rows, get a leaf, its parents and an
\* id without record
BulkAssignIsSingleAssignsWitness ==
    /\ request.op = "bulk_assign"
    /\ request.fail = 0
    /\ response.status = 200
    /\ Len(request.product_ids) = 2
    /\ request.product_ids[1] # request.product_ids[2]
    /\ \E c \in request.category_ids : c \notin CategoryNames(before.category_json)
    /\ RequestedAncestors \ request.category_ids # {}
    /\ \E m \in before.mapping :
          m[1] \in Listed(request.product_ids) /\ m[2] \in RequestedAncestors
    /\ \A p \in Listed(request.product_ids) : \E m \in RowsInserted : m[1] = p
    /\ AsSingleAssigns

(***************************************************************************)
(* C26: under requests handled one at a time, a row of                     *)
(* product_category_mapping is written only for a category that has a      *)
(* record in the hierarchy file: a requested id, or a parent name reached  *)
(* by the walk, without record is skipped.                                 *)
(* Both assign handlers insert set(category_ids) | parent_categories, and  *)
(* the bulk handler's `continue` skips the walk of an unknown id, not its  *)
(* INSERT.                                                                 *)
(***************************************************************************)
InsertedCategoriesHaveRecords ==
    request.op \in {"assign", "bulk_assign", "bulk_assign_category"}
        => \A m \in RowsInserted : m[2] \in CategoryNames(category_json)

(***************************************************************************)
(* C29: the assign handlers of app.py and of app_fastapi.py are            *)
(* equivalent. For every product id, in the catalog or not, every          *)
(* hierarchy and every non-empty list of category ids, the handler that    *)
(* took the request leaves the rows and last_modified values the other     *)
(* one leaves from the same stores, and reports the same added category    *)
(* ids.                                                                    *)
(* database.py sets PRAGMA foreign_keys = ON and app.py does not: for a    *)
(* product that is not in product_categories one inserts and the other     *)
(* gets IntegrityError on every INSERT.                                    *)
(***************************************************************************)
AssignHandlersAgree ==
    (request.op = "assign" /\ request.fail = 0 /\ request.category_ids # {})
    => LET other == AssignHandler(CHOOSE app \in Apps : app # request.app,
                                  request.product_id, request.category_ids, 0,
                                  before.category_json,
                                  [mapping |-> before.mapping,
                                   last_modified |-> before.last_modified,
                                   categories |-> before.categories],
                                  now)
       IN  /\ product_category_mapping = other.db.mapping
           /\ last_modified = other.db.last_modified
           /\ response.status = 200
           /\ response.added_categories = other.response.added_categories

(***************************************************************************)
(* C30: migrate_categories copies every record of a hierarchy file with    *)
(* unique names into the categories table, whatever the order of the       *)
(* records: run on an empty table it leaves one row per record, a child    *)
(* that stands before its parent included, and the count check of          *)
(* verify_migration passes. Stated for the files in which every            *)
(* connected_to names a record.                                            *)
(* The connection has PRAGMA foreign_keys = ON and each record is inserted *)
(* with its parent_id in one pass: the INSERT of a child whose parent has  *)
(* no row yet raises IntegrityError, which the loop prints and drops.      *)
(***************************************************************************)
\* every connected_to of the file is null or the name of a record of the file
ParentsHaveRecords(categories) ==
    \A i \in 1..Len(categories) :
        categories[i].connected_to \in {Null} \cup CategoryNames(categories)

MigrationCopiesEveryRecord ==
    ParentsHaveRecords(category_json) =>
    /\ request.op \in {"migrate", "verify"}
           => /\ Cardinality(categories_table) = Len(category_json)
              /\ \A i \in 1..Len(category_json) :
                    MigratedRow(category_json[i]) \in categories_table
    /\ request.op = "verify" => response.counts_match

(***************************************************************************)
(* C27: under every interleaving of a delete of category C with an assign  *)
(* or a bulk assign that names C, once the delete has answered 200 and     *)
(* both requests have ended, no row of product_category_mapping names C.   *)
(* Nothing orders the two requests: the assigning request never asks       *)
(* whether the category it inserts still has a record, and the delete      *)
(* removes only the rows that are there when its DELETE runs.              *)
(***************************************************************************)
DeletedCategoryHasNoRows ==
    (BothAnswered
        /\ connections[1].request.op = "delete"
        /\ connections[1].response.status = 200)
    => \A m \in product_category_mapping :
          m[2] # connections[1].request.category_name

(***************************************************************************)
(* C28: under every interleaving of create and delete requests in flight   *)
(* together the hierarchy file loses no update. Once both have ended, a    *)
(* category whose create answered 200 is in the file unless the other      *)
(* request is a delete of it that answered 200, and a category whose       *)
(* delete answered 200 is not in the file unless the other request is a    *)
(* create of it that answered 200.                                         *)
(* Each handler writes the list it read at its start over the file,        *)
(* whatever the other request has written in between.                      *)
(***************************************************************************)
NoLostTreeUpdate ==
    BothAnswered
    => \A c \in Connections :
          LET mine   == connections[c]
              theirs == connections[Other(c)]
          IN  /\ (mine.request.op = "create" /\ mine.response.status = 200)
                 => \/ mine.request.name \in CategoryNames(category_json)
                    \/ /\ theirs.request.op = "delete"
                       /\ theirs.response.status = 200
                       /\ theirs.request.category_name = mine.request.name
              /\ (mine.request.op = "delete" /\ mine.response.status = 200)
                 => \/ mine.request.category_name \notin CategoryNames(category_json)
                    \/ /\ theirs.request.op = "create"
                       /\ theirs.response.status = 200
                       /\ theirs.request.name = mine.request.category_name

====
